---- MODULE Spec2Model ----
(***************************************************************************)
(* Workflow execution engine of rete_project (backend/pharma_automation.py *)
(* and the stand-alone pharma_automation.py): graph loading, topological   *)
(* ordering, per-row evaluation of Source/Rule/AND/OR/Action nodes and the *)
(* row processing driver run_workflow_processing.                          *)
(*                                                                         *)
(* Representation of Python values                                         *)
(*   text   a sequence of one-character strings, <<"w">>, <<"a","b">>      *)
(*   None   [t |-> "none"]                                                *)
(*   bool   [t |-> "bool", v |-> TRUE]                                     *)
(*   int    [t |-> "int", v |-> n]                                         *)
(*   float  [t |-> "float", neg |-> FALSE, whole |-> 0, frac |-> <<"8">>]:  *)
(*          the decimal value 0.8 (sign, whole part, fraction digits);     *)
(*          [t |-> "inf", neg |-> FALSE] and [t |-> "nan"] are floats too  *)
(*   str    [t |-> "str", v |-> <<chars>>]                                 *)
(*   a whitelisted function is [t |-> "builtin", v |-> <<"a","b","s">>]    *)
(*   a raised exception is [t |-> "raise", exc |-> "OverflowError"]        *)
(*   dict   a function; the empty dict is <<>>                             *)
(*   [t |-> "outside"] stands for a Python result that this representation *)
(*   does not hold; no operator gives a definite answer from it.           *)
(***************************************************************************)
EXTENDS Integers, Sequences, FiniteSets, TLC

VARIABLES
  workflow_data,              \* argument of run_workflow_processing
  csv_fieldnames,             \* header line of the input CSV file (reader.fieldnames)
  csv_rows,                   \* its lines as csv.DictReader gives them (cell texts)
  hash_seed,                  \* the process's str hashes (set iteration order)
  nodes,                      \* engine.nodes, in insertion order
  connections_from_source,    \* engine.connections_from_source
  connections_to_target,      \* engine.connections_to_target
  node_order,                 \* engine.node_order
  all_input_data,             \* rows loaded by load_csv_data_from_file
  pc,                         \* position in run_workflow_processing
  i,                          \* index of the current row (1-based)
  k,                          \* index in node_order inside process_event
  evaluated_outputs,          \* process_event's local map
  entered_node,               \* process_event's node_id: the node last entered
  gathered_inputs,            \* its current_node_inputs_values
  decision,                   \* value returned by process_event
  action_calls,               \* node ids whose action_func was called for the row
  processed_data_with_output, \* output rows
  error_count,
  accepted_count,
  discarded_count,
  result,                     \* value returned (or exception raised) by the run
  outfile                     \* content of the output CSV file

vars == <<workflow_data, csv_fieldnames, csv_rows, hash_seed, nodes, connections_from_source,
          connections_to_target, node_order, all_input_data, pc, i, k,
          evaluated_outputs, entered_node, gathered_inputs, decision,
          action_calls, processed_data_with_output, error_count, accepted_count,
          discarded_count, result, outfile>>

----------------------------------------------------------------------------
(* Characters and strings *)

\* The printable ASCII characters in code point order, from 32 (space) to 126;
\* code point 96, the grave accent, is written GRAVE.
Ascii ==
  <<" ", "!", "\"", "#", "$", "%", "&", "'", "(", ")", "*", "+", ",", "-", ".", "/",
    "0", "1", "2", "3", "4", "5", "6", "7", "8", "9", ":", ";", "<", "=", ">", "?",
    "@", "A", "B", "C", "D", "E", "F", "G", "H", "I", "J", "K", "L", "M", "N", "O",
    "P", "Q", "R", "S", "T", "U", "V", "W", "X", "Y", "Z", "[", "\\", "]", "^", "_",
    "GRAVE", "a", "b", "c", "d", "e", "f", "g", "h", "i", "j", "k", "l", "m", "n", "o",
    "p", "q", "r", "s", "t", "u", "v", "w", "x", "y", "z", "{", "|", "}", "~">>

AsciiSet == {Ascii[n] : n \in 1..Len(Ascii)}

\* ord(c)
OrdTable == [c \in AsciiSet |-> 31 + CHOOSE n \in 1..Len(Ascii) : Ascii[n] = c]

Ord(c) == OrdTable[c]

\* the characters of the code points m..n
CharRange(m, n) == {Ascii[p - 31] : p \in m..n}

DigitChars == CharRange(48, 57)

UpperChars == CharRange(65, 90)

LowerChars == CharRange(97, 122)

IdentStartChars == UpperChars \cup LowerChars \cup {"_"}

IdentChars == IdentStartChars \cup DigitChars

IsDigit(c) == c \in DigitChars

IsUpper(c) == c \in UpperChars

IsLower(c) == c \in LowerChars

\* the regular expression class [a-zA-Z_]
IsIdentStart(c) == c \in IdentStartChars

\* the regular expression class [a-zA-Z0-9_]
IsIdentChar(c) == c \in IdentChars

LowerChar(c) == IF IsUpper(c) THEN Ascii[Ord(c) + 32 - 31] ELSE c

\* str.lower()
Lower(s) == [n \in 1..Len(s) |-> LowerChar(s[n])]

RECURSIVE LStrip(_)
LStrip(s) == IF s # <<>> /\ Head(s) = " " THEN LStrip(Tail(s)) ELSE s

RECURSIVE RStrip(_)
RStrip(s) ==
  IF s # <<>> /\ s[Len(s)] = " " THEN RStrip(SubSeq(s, 1, Len(s) - 1)) ELSE s

\* str.strip() (the only whitespace of the model is the space)
Strip(s) == RStrip(LStrip(s))

\* s < t for two str (code point order)
RECURSIVE StrLess(_, _)
StrLess(s, t) ==
  IF t = <<>> THEN FALSE
  ELSE IF s = <<>> THEN TRUE
  ELSE IF Head(s) # Head(t) THEN Ord(Head(s)) < Ord(Head(t))
  ELSE StrLess(Tail(s), Tail(t))

\* dict.get(key, default)
Get(d, key, default) == IF key \in DOMAIN d THEN d[key] ELSE default

----------------------------------------------------------------------------
(* Python values *)

None == [t |-> "none"]

Bool(b) == [t |-> "bool", v |-> b]

\* an int
PyInt(n) == [t |-> "int", v |-> n]

\* a finite float, written in decimal: (-1)^neg * (whole + 0.frac), frac the
\* digits after the point without trailing zeros
Float(neg, whole, frac) == [t |-> "float", neg |-> neg, whole |-> whole, frac |-> frac]

\* float('inf') and float('-inf')
Inf(neg) == [t |-> "inf", neg |-> neg]

\* float('nan')
NaN == [t |-> "nan"]

Str(s) == [t |-> "str", v |-> s]

Raise(e) == [t |-> "raise", exc |-> e]

\* A Python result that the representation above does not hold (a number of
\* more digits than the limits below, the result of float arithmetic, a tuple,
\* a function object, ...): nothing is said about it.
Outside == [t |-> "outside"]

ValueError == Raise("ValueError")

TypeError == Raise("TypeError")

IsRaise(x) == x.t = "raise"

IsOutside(x) == x.t = "outside"

\* raised exceptions and unrepresented results pass through every operation
Stops(x) == x.t \in {"raise", "outside"}

\* the instances of float
IsFloat(x) == x.t \in {"float", "inf", "nan"}

\* the instances of int (bool is a subclass of int)
IsInt(x) == x.t \in {"int", "bool"}

IsNumeric(x) == IsInt(x) \/ IsFloat(x)

\* Limits of the representation: an int or the whole part of a float has at
\* most MaxWholeDigits digits, a float at most MaxSignificant significant
\* digits and, unless it is zero, a magnitude of at least 10^-MaxSmall.
MaxWholeDigits == 8

MaxSignificant == 14

MaxSmall == 300

\* the decimal digits of a natural number, as a str
RECURSIVE Digits(_)
Digits(n) ==
  IF n < 10 THEN <<Ascii[n + 17]>> ELSE Digits(n \div 10) \o <<Ascii[(n % 10) + 17]>>

\* the value of a str of decimal digits
RECURSIVE DigitsValue(_)
DigitsValue(s) ==
  IF s = <<>> THEN 0
  ELSE 10 * DigitsValue(SubSeq(s, 1, Len(s) - 1)) + (Ord(s[Len(s)]) - 48)

RECURSIVE StripZerosLeft(_)
StripZerosLeft(s) == IF s # <<>> /\ Head(s) = "0" THEN StripZerosLeft(Tail(s)) ELSE s

RECURSIVE StripZerosRight(_)
StripZerosRight(s) ==
  IF s # <<>> /\ s[Len(s)] = "0" THEN StripZerosRight(SubSeq(s, 1, Len(s) - 1)) ELSE s

Zeros(n) == [m \in 1..n |-> "0"]

From(s, n) == SubSeq(s, n, Len(s))

\* the character of s at position n; "" past the end
At(s, n) == IF n \in 1..Len(s) THEN s[n] ELSE ""

\* the int of the given sign and magnitude
SignedInt(neg, n) == PyInt(IF neg THEN 0 - n ELSE n)

\* the int sign * digits, for a str of decimal digits
IntOfDigits(neg, digits) ==
  IF Len(StripZerosLeft(digits)) > MaxWholeDigits THEN Outside
  ELSE SignedInt(neg, DigitsValue(StripZerosLeft(digits)))

\* the float sign * D * 10^(p - Len(D)) for a str D of decimal digits: its
\* digits are those of D, padded with zeros, with the point after p of them
DecimalAt(neg, D, p) ==
  Float(neg,
        DigitsValue(StripZerosLeft(SubSeq(D \o Zeros(p - Len(D)), 1,
                                          IF p < 0 THEN 0 ELSE p))),
        StripZerosRight(Zeros(0 - p) \o From(D, IF p < 0 THEN 1 ELSE p + 1)))

\* the float sign * D * 10^(p - Len(D)), sig the digits of D from its first
\* nonzero digit on: a number of 10^309 or more is beyond the largest float
\* and gives inf, a number below 10^-324 is less than half the smallest float
\* and gives zero
DecimalOf(neg, D, p, sig) ==
  IF sig = <<>> THEN Float(neg, 0, <<>>)
  ELSE IF p - (Len(D) - Len(sig)) - 1 >= 309 THEN Inf(neg)
  ELSE IF p - (Len(D) - Len(sig)) - 1 < 0 - 324 THEN Float(neg, 0, <<>>)
  ELSE IF \/ Len(StripZerosRight(sig)) > MaxSignificant
          \/ p - (Len(D) - Len(sig)) - 1 >= MaxWholeDigits
          \/ p - (Len(D) - Len(sig)) - 1 < 0 - MaxSmall
       THEN Outside
  ELSE DecimalAt(neg, D, p)

\* the float sign * whole_digits.frac_digits * 10^exp
Decimal(neg, whole_digits, frac_digits, exp) ==
  DecimalOf(neg, whole_digits \o frac_digits, Len(whole_digits) + exp,
            StripZerosLeft(whole_digits \o frac_digits))

\* the position after the digits (single underscores between them) that
\* start at position n of s
RECURSIVE DigitsEnd(_, _)
DigitsEnd(s, n) ==
  IF n > Len(s) \/ ~IsDigit(s[n]) THEN n
  ELSE IF n + 2 <= Len(s) /\ s[n + 1] = "_" /\ IsDigit(s[n + 2]) THEN DigitsEnd(s, n + 2)
  ELSE DigitsEnd(s, n + 1)

WithoutUnderscores(s) == SelectSeq(s, LAMBDA c : c # "_")


HasSign(s) == s # <<>> /\ Head(s) \in {"+", "-"}

IsNegative(s) == s # <<>> /\ Head(s) = "-"

Unsigned(s) == IF HasSign(s) THEN Tail(s) ELSE s

\* the exponent value of the digits d (no leading zeros) with the given sign
ExponentValue(neg, d) == IF neg THEN 0 - DigitsValue(d) ELSE DigitsValue(d)

\* the float sign * whole_digits.frac_digits * 10^exponent, exponent the digits
\* d (no leading zeros) with the sign exp_neg: zero whatever the exponent when
\* all digits are zero; an exponent of more digits than an int of the
\* representation decides the result (inf or zero) alone, unless the numeral
\* has ten million digits or more
DecimalWithExponent(neg, whole_digits, frac_digits, exp_neg, d) ==
  IF StripZerosLeft(whole_digits \o frac_digits) = <<>> THEN Float(neg, 0, <<>>)
  ELSE IF Len(d) <= MaxWholeDigits
       THEN Decimal(neg, whole_digits, frac_digits, ExponentValue(exp_neg, d))
  ELSE IF Len(whole_digits) + Len(frac_digits) >= 10000000 THEN Outside
  ELSE IF exp_neg THEN Float(neg, 0, <<>>)
  ELSE Inf(neg)

\* the numeral r with the exponent exp_text: a sign and digits
FloatOfExponent(neg, whole_digits, frac_digits, exp_text) ==
  IF /\ Unsigned(exp_text) # <<>>
     /\ DigitsEnd(Unsigned(exp_text), 1) > Len(Unsigned(exp_text))
  THEN DecimalWithExponent(neg, whole_digits, frac_digits, IsNegative(exp_text),
                           StripZerosLeft(WithoutUnderscores(Unsigned(exp_text))))
  ELSE ValueError

\* the numeral r: its whole digits end before position a, its fraction
\* digits are those from position f to before position b
FloatOfDigits(neg, r, a, f, b) ==
  IF a = 1 /\ b = f THEN ValueError
  ELSE IF b > Len(r)
       THEN Decimal(neg, WithoutUnderscores(SubSeq(r, 1, a - 1)),
                    WithoutUnderscores(SubSeq(r, f, b - 1)), 0)
  ELSE IF r[b] \in {"e", "E"}
       THEN FloatOfExponent(neg, WithoutUnderscores(SubSeq(r, 1, a - 1)),
                            WithoutUnderscores(SubSeq(r, f, b - 1)), From(r, b + 1))
  ELSE ValueError

\* the numeral r, whose whole digits end before position a
FloatOfNumeral(neg, r, a) ==
  IF At(r, a) = "." THEN FloatOfDigits(neg, r, a, a + 1, DigitsEnd(r, a + 1))
  ELSE FloatOfDigits(neg, r, a, a, a)

\* float() of a text r without sign
FloatOfUnsigned(neg, r) ==
  IF Lower(r) \in {<<"i","n","f">>, <<"i","n","f","i","n","i","t","y">>} THEN Inf(neg)
  ELSE IF Lower(r) = <<"n","a","n">> THEN NaN
  ELSE FloatOfNumeral(neg, r, DigitsEnd(r, 1))

FloatOfStripped(s) == FloatOfUnsigned(IsNegative(s), Unsigned(s))

\* float(text) for a str: surrounding whitespace, a sign, then "inf",
\* "infinity" or "nan" in any case, or a decimal numeral: digits (single
\* underscores between digits), an optional point and fraction, an optional
\* exponent; at least one digit before or after the point. Every other text
\* raises ValueError.
FloatOfStr(text) == FloatOfStripped(Strip(text))

\* a text of more than 4300 digits exceeds the limit for integer string
\* conversion (sys.get_int_max_str_digits())
IntOfLimited(neg, digits) ==
  IF Len(digits) > 4300 THEN ValueError ELSE IntOfDigits(neg, digits)

IntOfStripped(s) ==
  IF Unsigned(s) # <<>> /\ DigitsEnd(Unsigned(s), 1) > Len(Unsigned(s))
  THEN IntOfLimited(IsNegative(s), WithoutUnderscores(Unsigned(s)))
  ELSE ValueError

\* int(text) for a str: surrounding whitespace, a sign, at most 4300 decimal
\* digits with single underscores between digits; every other text raises
\* ValueError
IntOfStr(text) == IntOfStripped(Strip(text))

\* float(value)
FloatOf(value) ==
  CASE value.t = "str" -> FloatOfStr(value.v)
    [] value.t = "bool" -> Float(FALSE, IF value.v THEN 1 ELSE 0, <<>>)
    [] value.t = "int" ->
         Float(value.v < 0, IF value.v < 0 THEN 0 - value.v ELSE value.v, <<>>)
    [] IsFloat(value) -> value
    [] Stops(value) -> value
    [] OTHER -> TypeError

\* int(x) for a float x: truncation toward zero; int(inf) raises
\* OverflowError, int(nan) raises ValueError
IntOfFloat(x) ==
  CASE x.t = "inf" -> Raise("OverflowError")
    [] x.t = "nan" -> ValueError
    [] x.t = "float" -> SignedInt(x.neg, x.whole)

\* int(value)
IntOf(value) ==
  CASE value.t = "str" -> IntOfStr(value.v)
    [] value.t = "bool" -> PyInt(IF value.v THEN 1 ELSE 0)
    [] value.t = "int" -> value
    [] IsFloat(value) -> IntOfFloat(value)
    [] Stops(value) -> value
    [] OTHER -> TypeError

\* repr of a finite float: positional notation with at least one digit after
\* the point, scientific notation below 0.0001
FloatRepr(x) ==
  LET sign == IF x.neg THEN <<"-">> ELSE <<>>
      z == Len(x.frac) - Len(StripZerosLeft(x.frac))
      sig == StripZerosLeft(x.frac)
      e == Digits(z + 1)
  IN IF x.whole = 0 /\ z >= 4
       THEN sign \o <<Head(sig)>>
            \o (IF Len(sig) > 1 THEN <<".">> \o Tail(sig) ELSE <<>>)
            \o <<"e", "-">> \o (IF Len(e) < 2 THEN <<"0">> ELSE <<>>) \o e
     ELSE sign \o Digits(x.whole) \o <<".">>
          \o (IF x.frac = <<>> THEN <<"0">> ELSE x.frac)

BuiltinFunctions == {<<"a","b","s">>, <<"m","i","n">>, <<"m","a","x">>,
                     <<"r","o","u","n","d">>, <<"l","e","n">>}

BuiltinTypes == {<<"s","t","r">>, <<"i","n","t">>, <<"f","l","o","a","t">>,
                 <<"b","o","o","l">>}

\* str(value)
StrOf(value) ==
  CASE value.t = "str" -> value
    [] value.t = "none" -> Str(<<"N","o","n","e">>)
    [] value.t = "bool" ->
         Str(IF value.v THEN <<"T","r","u","e">> ELSE <<"F","a","l","s","e">>)
    [] value.t = "int" ->
         Str(IF value.v < 0 THEN <<"-">> \o Digits(0 - value.v) ELSE Digits(value.v))
    [] value.t = "float" -> Str(FloatRepr(value))
    [] value.t = "inf" ->
         Str(IF value.neg THEN <<"-","i","n","f">> ELSE <<"i","n","f">>)
    [] value.t = "nan" -> Str(<<"n","a","n">>)
    [] value.t = "builtin" ->
         Str(IF value.v \in BuiltinTypes
               THEN <<"<","c","l","a","s","s"," ","'">> \o value.v \o <<"'",">">>
             ELSE <<"<","b","u","i","l","t","-","i","n"," ",
                    "f","u","n","c","t","i","o","n"," ">> \o value.v \o <<">">>)
    [] Stops(value) -> value

\* bool(value): truth value of a Python object
Truthy(value) ==
  CASE value.t = "none" -> FALSE
    [] value.t = "bool" -> value.v
    [] value.t = "int" -> value.v # 0
    [] value.t = "float" -> value.whole # 0 \/ value.frac # <<>>
    [] value.t = "inf" -> TRUE
    [] value.t = "nan" -> TRUE
    [] value.t = "str" -> value.v # <<>>
    [] value.t = "builtin" -> TRUE

\* bool(value) as a value
BoolOf(value) == IF Stops(value) THEN value ELSE Bool(Truthy(value))

----------------------------------------------------------------------------
(* The row source: load_csv_data_from_file *)

StrTrue == <<"t","r","u","e">>

StrFalse == <<"f","a","l","s","e">>

\* try: processed_row[header] = float(value); except ValueError: ... = value
FloatOrText(value, x) == IF x = ValueError THEN Str(value) ELSE x

\* the typing of a cell text that is not blank
LoadValue(value) ==
  IF Lower(value) = StrTrue THEN Bool(TRUE)
  ELSE IF Lower(value) = StrFalse THEN Bool(FALSE)
  ELSE FloatOrText(value, FloatOfStr(value))

\* The typing of one cell: blank is None, true/false is a bool, a text that
\* float() takes is a float, anything else stays a str.
LoadCell(raw_value) ==
  IF Strip(raw_value) = <<>> THEN None ELSE LoadValue(Strip(raw_value))

\* the csv reader takes no field of more than 131072 characters
\* (csv.field_size_limit()): it raises csv.Error
FieldTooLong(row) == \E key \in DOMAIN row : Len(row[key]) > 131072

\* the same limit on the header line, which "reader.fieldnames" reads
HeaderTooLong(fieldnames) == \E n \in DOMAIN fieldnames : Len(fieldnames[n]) > 131072

\* the lines read before the exception of the reader, if any, ends the loop
RECURSIVE RowsRead(_)
RowsRead(rows) ==
  IF rows = <<>> \/ FieldTooLong(Head(rows)) THEN <<>>
  ELSE <<Head(rows)>> \o RowsRead(Tail(rows))

\* a list without the repetitions of its members: the keys of a dict in the
\* order in which they went in
RECURSIVE KeyOrder(_, _)
KeyOrder(names, seen) ==
  IF names = <<>> THEN <<>>
  ELSE IF Head(names) \in seen THEN KeyOrder(Tail(names), seen)
  ELSE <<Head(names)>> \o KeyOrder(Tail(names), seen \cup {Head(names)})

\* fieldnames_from_csv = [h.strip() for h in reader.fieldnames]
StrippedFieldnames(fieldnames) == [n \in DOMAIN fieldnames |-> Strip(fieldnames[n])]

\* "for r_key in row.keys(): if r_key.strip() == header: ...; break": the
\* keys of a line are the names of the header line, in their order
RECURSIVE ActualKey(_, _)
ActualKey(fieldnames, header) ==
  IF Strip(Head(fieldnames)) = header THEN Head(fieldnames)
  ELSE ActualKey(Tail(fieldnames), header)

\* row.get(actual_key_in_row) and the typing of the cell: a line shorter
\* than the header holds None for the names it has no cell for; such a name
\* is no key of the row here
LoadField(row, actual_key_in_row) ==
  IF actual_key_in_row \in DOMAIN row THEN LoadCell(row[actual_key_in_row]) ELSE None

\* the dict of one line, keyed by the stripped names of the header line
LoadRow(fieldnames, row) ==
  [header \in {Strip(fieldnames[n]) : n \in DOMAIN fieldnames} |->
     LoadField(row, ActualKey(fieldnames, header))]

\* the dicts of the lines read
LoadRows(fieldnames, rows) == [n \in 1..Len(rows) |-> LoadRow(fieldnames, rows[n])]

\* One dict per line of the file. A file without a header line gives the
\* empty list ("if not reader.fieldnames"), so does a header line the reader
\* raises on, and an exception of the reader on a later line ("except
\* Exception") ends the list at the lines read.
load_csv_data_from_file(fieldnames, rows) ==
  IF fieldnames = <<>> \/ HeaderTooLong(fieldnames) THEN <<>>
  ELSE LoadRows(fieldnames, RowsRead(rows))

----------------------------------------------------------------------------
(* Type coercion: WorkflowEngine._cast_value *)

\* except (ValueError, TypeError): return None
CatchValueTypeError(x) ==
  IF IsRaise(x) /\ x.exc \in {"ValueError", "TypeError"} THEN None ELSE x

\* int(float(value)), given float(value)
IntOfFloatOf(x) == IF Stops(x) THEN x ELSE IntOfFloat(x)

\* bool(float(value)) in its own try statement, given float(value)
BoolOfFloatOf(x) == IF x = ValueError THEN None ELSE BoolOf(x)

_cast_value(value, target_type_str) ==
  IF value.t = "none" THEN None
  ELSE IF IsOutside(value) THEN Outside
  ELSE IF Lower(target_type_str) = <<"f","l","o","a","t">>
       THEN CatchValueTypeError(FloatOf(value))
  ELSE IF Lower(target_type_str) = <<"i","n","t">>
       THEN CatchValueTypeError(IntOfFloatOf(FloatOf(value)))
  ELSE IF Lower(target_type_str) = <<"s","t","r">> THEN StrOf(value)
  ELSE IF Lower(target_type_str) = <<"b","o","o","l">>
       THEN IF value.t # "str" THEN Bool(Truthy(value))
            ELSE IF Lower(value.v) = StrTrue THEN Bool(TRUE)
            ELSE IF Lower(value.v) = StrFalse THEN Bool(FALSE)
            ELSE CatchValueTypeError(BoolOfFloatOf(FloatOf(value)))
  ELSE value
----------------------------------------------------------------------------
(* Identifier extraction: WorkflowEngine._get_variables_from_code_line *)

\* the position after the run of [a-zA-Z0-9_] that starts at position n of s
RECURSIVE IdentEnd(_, _)
IdentEnd(s, n) == IF n <= Len(s) /\ IsIdentChar(s[n]) THEN IdentEnd(s, n + 1) ELSE n

\* the match that starts at position n of s, followed by the later matches
RECURSIVE FindIdentifiers(_, _)
IdentifierTo(s, n, end) == <<SubSeq(s, n, end - 1)>> \o FindIdentifiers(s, end)

\* re.findall(r'[a-zA-Z_][a-zA-Z0-9_]*', s): the list of the matches in s
\* from position n on, from left to right
FindIdentifiers(s, n) ==
  IF n > Len(s) THEN <<>>
  ELSE IF IsIdentStart(s[n]) THEN IdentifierTo(s, n, IdentEnd(s, n))
  ELSE FindIdentifiers(s, n + 1)

\* the str values of a list
Members(names) == {names[n] : n \in DOMAIN names}

(* A set of str is CPython's open-addressing hash table (Objects/setobject.c):
   a list of slots, each empty (the empty text) or holding a key.  A str
   hash is a 64-bit number that changes from one process to the next
   (PYTHONHASHSEED); it is written as its digits in base 32, lowest first
   (missing digits are zeros), so that "perturb >>= PERTURB_SHIFT" drops the
   first digit.  The seed of a process gives each str its hash. *)

EmptySlot == <<>>

\* a table of the given number of empty slots
RECURSIVE EmptyTable(_)
EmptyTable(size) == IF size = 0 THEN <<>> ELSE Append(EmptyTable(size - 1), EmptySlot)

\* (size_t)hash & mask, for the table of the given size (a power of two)
RECURSIVE LowBits(_, _)
LowBits(perturb, size) ==
  IF perturb = <<>> \/ size <= 1 THEN 0
  ELSE IF size <= 32 THEN Head(perturb) % size
  ELSE Head(perturb) + 32 * LowBits(Tail(perturb), size \div 32)

\* perturb >>= PERTURB_SHIFT
Shift(perturb) == IF perturb = <<>> THEN <<>> ELSE Tail(perturb)

\* i = (i * 5 + 1 + perturb) & mask, after perturb >>= PERTURB_SHIFT
NextEntry(start, perturb, size) ==
  (start * 5 + 1 + LowBits(Shift(perturb), size)) % size

\* the probing loop of set_add_entry for key, at entry "probe" of the linear
\* run (of LINEAR_PROBES = 9 further entries when they fit in the table) that
\* starts at index "start", after "shifts" shifts of perturb: the index of
\* the unused entry found, or -1 when the key is found, and the number of
\* shifts made
RECURSIVE ProbeKey(_, _, _, _, _, _)
ProbeKey(table, key, start, probe, perturb, shifts) ==
  IF table[start + probe + 1] = EmptySlot
  THEN [index |-> start + probe, shifts |-> shifts]
  ELSE IF table[start + probe + 1] = key THEN [index |-> 0 - 1, shifts |-> shifts]
  ELSE IF probe < (IF start + 9 <= Len(table) - 1 THEN 9 ELSE 0)
       THEN ProbeKey(table, key, start, probe + 1, perturb, shifts)
  ELSE ProbeKey(table, key, NextEntry(start, perturb, Len(table)), 0,
                Shift(perturb), shifts + 1)

LookKey(table, key, hash) ==
  ProbeKey(table, key, LowBits(hash, Len(table)), 0, hash, 0)

\* the table with key in the first unused entry of its probe sequence,
\* unchanged when it holds key already
PutAt(table, key, index) ==
  IF index < 0 THEN table ELSE [table EXCEPT ![index + 1] = key]

Put(table, key, hash) == PutAt(table, key, LookKey(table, key, hash).index)

\* the keys of a table from entry n on, in the order of their entries
RECURSIVE EntriesFrom(_, _)
EntriesFrom(table, n) ==
  IF n > Len(table) THEN <<>>
  ELSE IF table[n] = EmptySlot THEN EntriesFrom(table, n + 1)
  ELSE <<table[n]>> \o EntriesFrom(table, n + 1)

Entries(table) == EntriesFrom(table, 1)

\* set_insert_clean over the keys of the old table, in the order of its
\* entries
RECURSIVE InsertClean(_, _, _)
InsertClean(keys, table, seed) ==
  IF keys = <<>> THEN table
  ELSE InsertClean(Tail(keys), Put(table, Head(keys), seed[Head(keys)]), seed)

\* the size set_table_resize takes: PySet_MINSIZE = 8, doubled until it
\* exceeds minused
RECURSIVE TableSize(_, _)
TableSize(newsize, minused) ==
  IF newsize <= minused THEN TableSize(2 * newsize, minused) ELSE newsize

\* the minused that set_add_entry asks for: used * 4, and used * 2 for a set
\* of more than 50000 keys
GrowTo(used) == IF used > 50000 THEN used * 2 ELSE used * 4

\* set_table_resize(so, so->used > 50000 ? so->used * 2 : so->used * 4)
set_table_resize(keys, seed) ==
  InsertClean(keys, EmptyTable(TableSize(8, GrowTo(Len(keys)))), seed)

\* the end of set_add_entry after a key went in: the table grows once three
\* fifths of its entries (mask = size - 1) are in use
Grown(table, keys, seed) ==
  IF Len(keys) * 5 < (Len(table) - 1) * 3 THEN table ELSE set_table_resize(keys, seed)

AfterAdd(old, table, seed) ==
  IF table = old THEN old ELSE Grown(table, Entries(table), seed)

\* set_add_entry(so, key, hash)
set_add_entry(table, key, seed) == AfterAdd(table, Put(table, key, seed[key]), seed)

\* set(names): the keys go in one by one, in the order of the list
RECURSIVE SetOf(_, _, _)
SetOf(names, table, seed) ==
  IF names = <<>> THEN table
  ELSE SetOf(Tail(names), set_add_entry(table, Head(names), seed), seed)

\* set(re.findall(r'[a-zA-Z_][a-zA-Z0-9_]*', code_line)) in a process of the
\* given seed
_get_variables_from_code_line(code_line, seed) ==
  SetOf(FindIdentifiers(code_line, 1), EmptyTable(8), seed)

\* "for var_name in identifiers_in_code": a set is iterated in the order of
\* its table entries, which depends on the hashes of this process and on the
\* order in which the keys went in
IterationOrder(identifiers_in_code) == Entries(identifiers_in_code)

----------------------------------------------------------------------------
(* eval(code_line, restricted_globals, eval_scope)                          *)
(* The expressions covered: names, True False None, decimal numerals,       *)
(* quoted strings, parentheses, calls, the unary and binary operators,      *)
(* comparisons (also chained, with in and is), not, and, or and the         *)
(* conditional expression. A text that uses more of the language (tuples,   *)
(* lists, subscripts, attributes, lambda, comprehensions, other literals)   *)
(* has the result Outside.                                                  *)

CmpOps == {"==", "!=", "<=", ">=", "<", ">"}

Tok(kind, value) == [k |-> kind, v |-> value]

KwAnd == <<"a","n","d">>

KwOr == <<"o","r">>

KwNot == <<"n","o","t">>

KwIn == <<"i","n">>

KwIs == <<"i","s">>

KwIf == <<"i","f">>

KwElse == <<"e","l","s","e">>

KwTrue == <<"T","r","u","e">>

KwFalse == <<"F","a","l","s","e">>

KwNone == <<"N","o","n","e">>

\* reserved words that no expression contains ("from" is one of an
\* expression after "yield" alone: see EvalTokens)
StatementKeywords ==
  {<<"a","s">>, <<"a","s","s","e","r","t">>, <<"b","r","e","a","k">>,
   <<"c","l","a","s","s">>, <<"c","o","n","t","i","n","u","e">>, <<"d","e","f">>,
   <<"d","e","l">>, <<"e","l","i","f">>, <<"e","x","c","e","p","t">>,
   <<"f","i","n","a","l","l","y">>, <<"g","l","o","b","a","l">>,
   <<"i","m","p","o","r","t">>, <<"n","o","n","l","o","c","a","l">>,
   <<"p","a","s","s">>, <<"r","a","i","s","e">>, <<"r","e","t","u","r","n">>,
   <<"t","r","y">>, <<"w","h","i","l","e">>, <<"w","i","t","h">>}

KwFrom == <<"f","r","o","m">>

KwYield == <<"y","i","e","l","d">>

\* reserved words of expressions that the grammar below does not cover:
\* lambda, comprehensions, await, yield
OtherKeywords ==
  {<<"l","a","m","b","d","a">>, <<"f","o","r">>, <<"a","s","y","n","c">>,
   <<"a","w","a","i","t">>, KwYield}

\* reserved words that are operators
OperatorKeywords ==
  {<<"a","n","d">>, <<"o","r">>, <<"n","o","t">>, <<"i","n">>, <<"i","s">>,
   <<"i","f">>, <<"e","l","s","e">>}

\* the prefixes of string literals, in lower case
StringPrefixes ==
  {<<"r">>, <<"u">>, <<"b">>, <<"f">>, <<"b","r">>, <<"r","b">>, <<"f","r">>,
   <<"r","f">>}

Keywords == StatementKeywords \cup OtherKeywords \cup OperatorKeywords
            \cup {KwTrue, KwFalse, KwNone}

IsDigitAt(s, n) == n \in 1..Len(s) /\ IsDigit(s[n])

\* Tokens of one, two and three characters. The grammar below covers
\* ExpressionOps; the rest are tokens of other parts of the language.
ExpressionOps ==
  {"==", "!=", "<=", ">=", "<", ">", "(", ")", ",", "+", "-", "*", "/", "//", "%",
   "**", "@", "&", "|", "^", "~", "<<", ">>"}

OtherOps ==
  {"[", "]", "{", "}", ".", ":", ";", "=", ":=", "->", "+=", "-=", "*=", "/=", "%=",
   "&=", "|=", "^=", "@=", "**=", "//=", ">>=", "<<=", "..."}

\* an underscore after the digits of a numeral is followed by no digit
NoUnderscoreAt(s, end) == IF At(s, end) = "_" THEN 0 ELSE end

\* the position after the digits (single underscores between them) that start
\* at position n of s; 0 when an underscore is not followed by a digit
DecimalTail(s, n) == NoUnderscoreAt(s, DigitsEnd(s, n))

\* A numeral may be followed directly by one of the words and, else, for, if,
\* in, is, not, or, and by no other letter, digit or underscore.
EndOfNumber(s, n) ==
  LET c == At(s, n)
  IN IF c = "" THEN TRUE
     ELSE IF c = "a" THEN At(s, n + 1) = "n" /\ At(s, n + 2) = "d"
     ELSE IF c = "e" THEN At(s, n + 1) = "l" /\ At(s, n + 2) = "s" /\ At(s, n + 3) = "e"
     ELSE IF c = "f" THEN At(s, n + 1) = "o" /\ At(s, n + 2) = "r"
     ELSE IF c = "i" THEN At(s, n + 1) \in {"f", "n", "s"}
     ELSE IF c = "o" THEN At(s, n + 1) = "r"
     ELSE IF c = "n" THEN At(s, n + 1) = "o" /\ At(s, n + 2) = "t"
     ELSE ~IsIdentChar(c)

\* The result of reading a numeral: the position after it and its kind
\* ("int", "float", "bad" for a malformed numeral, "ext" for a numeral of
\* another form: hexadecimal, octal, binary, imaginary).
Numeral(end, kind) == [end |-> end, kind |-> kind]

BadNumeral == Numeral(0, "bad")

OtherNumeral == Numeral(0, "ext")

\* the numeral ends before position n
NumeralEnd(s, n, kind) ==
  IF At(s, n) \in {"j", "J"} THEN OtherNumeral
  ELSE IF EndOfNumber(s, n) THEN Numeral(n, kind)
  ELSE BadNumeral

\* the digits of an exponent end before position end
NumeralExponentEnd(s, end) == IF end = 0 THEN BadNumeral ELSE NumeralEnd(s, end, "float")

\* s[n] is the e of an exponent; what stands before it is a numeral of the
\* given kind ("zeros": an integer with leading zeros)
NumeralExponent(s, n, kind) ==
  IF At(s, n + 1) \in {"+", "-"}
  THEN IF IsDigitAt(s, n + 2) THEN NumeralExponentEnd(s, DecimalTail(s, n + 2))
       ELSE BadNumeral
  ELSE IF IsDigitAt(s, n + 1) THEN NumeralExponentEnd(s, DecimalTail(s, n + 1))
  ELSE IF ~EndOfNumber(s, n) THEN BadNumeral
  ELSE IF kind = "zeros" THEN OtherNumeral
  ELSE Numeral(n, kind)

\* the fraction digits of a numeral end before position end
NumeralFractionEnd(s, end) ==
  IF end = 0 THEN BadNumeral
  ELSE IF At(s, end) \in {"e", "E"} THEN NumeralExponent(s, end, "float")
  ELSE NumeralEnd(s, end, "float")

\* position n follows the point of a numeral
NumeralFraction(s, n) ==
  NumeralFractionEnd(s, IF IsDigitAt(s, n) THEN DecimalTail(s, n) ELSE n)

\* the digits from position n to before position end are more than one digit
\* and start with a zero, and are not all zeros
LeadingZeros(s, n, end) ==
  s[n] = "0" /\ StripZerosLeft(WithoutUnderscores(SubSeq(s, n, end - 1))) # <<>>

\* the whole digits of the numeral at position n end before position end: a
\* decimal integer has no leading zeros, unless it is zero
NumeralWhole(s, n, end) ==
  IF end = 0 THEN BadNumeral
  ELSE IF At(s, end) = "." THEN NumeralFraction(s, end + 1)
  ELSE IF At(s, end) \in {"e", "E"}
       THEN NumeralExponent(s, end, IF LeadingZeros(s, n, end) THEN "zeros" ELSE "int")
  ELSE IF At(s, end) \in {"j", "J"} THEN OtherNumeral
  ELSE IF LeadingZeros(s, n, end) THEN BadNumeral
  ELSE NumeralEnd(s, end, "int")

\* the numeral that starts at position n of s (a digit, or a point and a digit)
NumeralRun(s, n) ==
  IF s[n] = "." THEN NumeralFraction(s, n + 1)
  ELSE IF s[n] = "0" /\ At(s, n + 1) \in {"x", "X", "o", "O", "b", "B"} THEN OtherNumeral
  ELSE NumeralWhole(s, n, DecimalTail(s, n))

\* the value of a numeral
NumeralValue(text, kind) ==
  IF kind = "int" THEN IntOfDigits(FALSE, WithoutUnderscores(text)) ELSE FloatOfStr(text)

\* index of the quote that closes a string literal: the first quote c at or
\* after position n of s that no backslash precedes; 0 when there is none
RECURSIVE ScanQuote(_, _, _)
ScanQuote(s, n, c) ==
  IF n > Len(s) THEN 0
  ELSE IF s[n] = "\\" THEN ScanQuote(s, n + 2, c)
  ELSE IF s[n] = c THEN n
  ELSE ScanQuote(s, n + 1, c)

\* for the literal whose opening quote is at position n
ClosingQuote(s, n) == ScanQuote(s, n + 1, s[n])

\* the characters after a backslash that start an escape sequence standing
\* for a character other than themselves
EscapeLetters ==
  {"a", "b", "f", "n", "r", "t", "v", "x", "N", "u", "U",
   "0", "1", "2", "3", "4", "5", "6", "7"}

\* the body of a string literal holds no such escape sequence
RECURSIVE PlainEscapes(_)
PlainEscapes(body) ==
  IF body = <<>> THEN TRUE
  ELSE IF Head(body) = "\\"
       THEN body[2] \notin EscapeLetters /\ PlainEscapes(Tail(Tail(body)))
  ELSE PlainEscapes(Tail(body))

\* the str a literal body stands for: \\ \' \" give the second character, a
\* backslash before any other character stays
RECURSIVE Unescape(_)
Unescape(body) ==
  IF body = <<>> THEN <<>>
  ELSE IF Head(body) = "\\"
       THEN (IF body[2] \in {"\\", "'", "\""} THEN <<body[2]>> ELSE <<"\\", body[2]>>)
            \o Unescape(Tail(Tail(body)))
  ELSE <<Head(body)>> \o Unescape(Tail(body))

StringValue(body) == IF PlainEscapes(body) THEN Str(Unescape(body)) ELSE Outside

AllOps == ExpressionOps \cup OtherOps

\* the operator token at position n of s: the longest of three, two or one
\* characters; "" when there is none
OpRun(s, n) ==
  IF n + 2 <= Len(s) /\ (s[n] \o s[n + 1] \o s[n + 2]) \in AllOps
  THEN s[n] \o s[n + 1] \o s[n + 2]
  ELSE IF n + 1 <= Len(s) /\ (s[n] \o s[n + 1]) \in AllOps THEN s[n] \o s[n + 1]
  ELSE IF s[n] \in AllOps THEN s[n]
  ELSE ""

RECURSIVE TokensFrom(_, _)

\* a name, or the prefix of a string literal, from position n to before end
NameToken(s, n, end) ==
  IF At(s, end) \in {"'", "\""} /\ Lower(SubSeq(s, n, end - 1)) \in StringPrefixes
  THEN <<Tok("ext", SubSeq(s, n, end - 1))>>
  ELSE <<Tok("name", SubSeq(s, n, end - 1))>> \o TokensFrom(s, end)

\* the numeral at position n, read as r
NumeralToken(s, n, r) ==
  IF r.kind \in {"bad", "ext"} THEN <<Tok(r.kind, s[n])>>
  ELSE IF /\ r.kind = "int"
          /\ Len(StripZerosLeft(WithoutUnderscores(SubSeq(s, n, r.end - 1)))) > 4300
       THEN <<Tok("bad", s[n])>>
  ELSE <<Tok("num", NumeralValue(SubSeq(s, n, r.end - 1), r.kind))>>
       \o TokensFrom(s, r.end)

\* the string literal whose quotes are at positions n and close
StringToken(s, n, close) ==
  IF At(s, n + 1) = s[n] /\ At(s, n + 2) = s[n] THEN <<Tok("ext", s[n])>>
  ELSE IF close = 0 THEN <<Tok("bad", s[n])>>
  ELSE <<Tok("str", StringValue(SubSeq(s, n + 1, close - 1)))>>
       \o TokensFrom(s, close + 1)

\* the operator op at position n
OpToken(s, n, op) ==
  IF op = "" \/ (s[n] = "<" /\ At(s, n + 1) = ">") THEN <<Tok("bad", s[n])>>
  ELSE <<Tok(IF op \in ExpressionOps THEN "op" ELSE "ext", op)>>
       \o TokensFrom(s, n + Len(op))

\* The tokens of s from position n on. A "bad" token is one that no Python
\* text contains (a malformed numeral, an unterminated string, a character
\* that starts no token); an "ext" token belongs to the language outside the
\* grammar below. A bad token ends the list, and so does an ext token whose
\* end is not read.
TokensFrom(s, n) ==
  IF n > Len(s) THEN <<>>
  ELSE IF s[n] = " " THEN TokensFrom(s, n + 1)
  ELSE IF s[n] = "#" THEN <<>>
  ELSE IF IsIdentStart(s[n]) THEN NameToken(s, n, IdentEnd(s, n))
  ELSE IF IsDigit(s[n]) \/ (s[n] = "." /\ IsDigitAt(s, n + 1))
       THEN NumeralToken(s, n, NumeralRun(s, n))
  ELSE IF s[n] \in {"'", "\""} THEN StringToken(s, n, ClosingQuote(s, n))
  ELSE OpToken(s, n, OpRun(s, n))

\* the tokens of a line
Tokenize(s) == TokensFrom(s, 1)

IsOp(toks, o) == toks # <<>> /\ Head(toks).k = "op" /\ Head(toks).v = o

IsOneOf(toks, ops) == toks # <<>> /\ Head(toks).k = "op" /\ Head(toks).v \in ops

IsKeyword(toks, word) == toks # <<>> /\ Head(toks).k = "name" /\ Head(toks).v = word

\* the token can end an operand: a name, a constant, a literal, ")"
EndsOperand(tok) ==
  \/ tok.k \in {"num", "str"}
  \/ tok.k = "name" /\ tok.v \notin (Keywords \ {KwTrue, KwFalse, KwNone})
  \/ tok.k = "op" /\ tok.v = ")"

\* The tokens hold a tuple display or a starred expression: a comma outside
\* the parentheses of a call, an empty pair of parentheses that is no call, or
\* a * or ** where an operand starts. open lists the parentheses entered;
\* before is the token just read (the token "(" at the start).
RECURSIVE HasTupleOrStar(_, _, _)
HasTupleOrStar(toks, before, open) ==
  IF toks = <<>> THEN FALSE
  ELSE LET tok == Head(toks)
       IN IF tok.k # "op" THEN HasTupleOrStar(Tail(toks), tok, open)
          ELSE IF tok.v = "("
               THEN IF EndsOperand(before)
                    THEN HasTupleOrStar(Tail(toks), tok, <<"call">> \o open)
                    ELSE IsOp(Tail(toks), ")")
                         \/ HasTupleOrStar(Tail(toks), tok, <<"group">> \o open)
          ELSE IF tok.v = ")"
               THEN open # <<>> /\ HasTupleOrStar(Tail(toks), tok, Tail(open))
          ELSE IF tok.v = ","
               THEN open = <<>> \/ Head(open) = "group"
                    \/ HasTupleOrStar(Tail(toks), tok, open)
          ELSE IF tok.v \in {"*", "**"} /\ ~EndsOperand(before) THEN TRUE
          ELSE HasTupleOrStar(Tail(toks), tok, open)

Parsed(tree, toks) == [ok |-> TRUE, ast |-> tree, rest |-> toks]

ParseFail == [ok |-> FALSE, ast |-> <<>>, rest |-> <<>>]

Const(value) == [n |-> "const", v |-> value]

\* the operators of the binary levels, from the loosest to the tightest
BinaryOps == <<{"|"}, {"^"}, {"&"}, {"<<", ">>"}, {"+", "-"}, {"*", "/", "//", "%", "@"}>>

RECURSIVE ParseExpression(_), ParseOr(_), ParseOrTail(_, _), ParseAnd(_)
RECURSIVE ParseAndTail(_, _), ParseNot(_), ParseCmp(_), ParseCmpTail(_, _, _, _)
RECURSIVE ParseBinary(_, _), ParseBinaryTail(_, _, _), ParseFactor(_), ParsePower(_)
RECURSIVE ParseTrailers(_, _), ParseAtom(_), ParseStrings(_, _), ParseArgs(_, _)

\* a 'if' test 'else' b, once b is parsed
ParseIfElse(a, test, b) ==
  IF ~b.ok THEN ParseFail
  ELSE Parsed([n |-> "ifelse", test |-> test.ast, a |-> a.ast, b |-> b.ast], b.rest)

\* a 'if' test ..., once the test is parsed
ParseIfTest(a, test) ==
  IF ~test.ok \/ ~IsKeyword(test.rest, KwElse) THEN ParseFail
  ELSE ParseIfElse(a, test, ParseExpression(Tail(test.rest)))

\* what follows the first disjunction of an expression
ParseIf(a) ==
  IF ~a.ok THEN ParseFail
  ELSE IF ~IsKeyword(a.rest, KwIf) THEN a
  ELSE ParseIfTest(a, ParseOr(Tail(a.rest)))

\* expression: disjunction ['if' disjunction 'else' expression]
ParseExpression(toks) == ParseIf(ParseOr(toks))

\* the parsed operand l starts a sequence of operands; Rest(_, _) reads on
ParseLeft(l, Rest(_, _)) == IF l.ok THEN Rest(l.ast, l.rest) ELSE ParseFail

ParseOr(toks) == ParseLeft(ParseAnd(toks), ParseOrTail)

ParseOrRight(left, r) ==
  IF r.ok THEN ParseOrTail([n |-> "or", a |-> left, b |-> r.ast], r.rest) ELSE ParseFail

ParseOrTail(left, toks) ==
  IF IsKeyword(toks, KwOr) THEN ParseOrRight(left, ParseAnd(Tail(toks)))
  ELSE Parsed(left, toks)

ParseAnd(toks) == ParseLeft(ParseNot(toks), ParseAndTail)

ParseAndRight(left, r) ==
  IF r.ok THEN ParseAndTail([n |-> "and", a |-> left, b |-> r.ast], r.rest)
  ELSE ParseFail

ParseAndTail(left, toks) ==
  IF IsKeyword(toks, KwAnd) THEN ParseAndRight(left, ParseNot(Tail(toks)))
  ELSE Parsed(left, toks)

\* 'not' r for a parsed operand r
ParseNotOperand(r) ==
  IF r.ok THEN Parsed([n |-> "not", a |-> r.ast], r.rest) ELSE ParseFail

ParseNot(toks) ==
  IF IsKeyword(toks, KwNot) THEN ParseNotOperand(ParseNot(Tail(toks)))
  ELSE ParseCmp(toks)

ParseCmpLeft(l) == IF l.ok THEN ParseCmpTail(l.ast, <<>>, <<>>, l.rest) ELSE ParseFail

ParseCmp(toks) == ParseCmpLeft(ParseBinary(1, toks))

\* the comparison operator at the head of the tokens, as its text and the
\* number of its tokens; "" when there is none
CmpOpAt(toks) ==
  IF IsOneOf(toks, CmpOps) THEN <<Head(toks).v, 1>>
  ELSE IF IsKeyword(toks, KwIn) THEN <<"in", 1>>
  ELSE IF IsKeyword(toks, KwNot) /\ IsKeyword(Tail(toks), KwIn) THEN <<"not in", 2>>
  ELSE IF IsKeyword(toks, KwIs) /\ IsKeyword(Tail(toks), KwNot) THEN <<"is not", 2>>
  ELSE IF IsKeyword(toks, KwIs) THEN <<"is", 1>>
  ELSE <<"", 0>>

ParseCmpRight(first, ops, operands, op, r) ==
  IF r.ok THEN ParseCmpTail(first, Append(ops, op[1]), Append(operands, r.ast), r.rest)
  ELSE ParseFail

\* the comparison goes on with the operator op, or ends
ParseCmpOp(first, ops, operands, toks, op) ==
  IF op[2] > 0
  THEN ParseCmpRight(first, ops, operands, op, ParseBinary(1, From(toks, op[2] + 1)))
  ELSE IF ops = <<>> THEN Parsed(first, toks)
  ELSE Parsed([n |-> "cmp", first |-> first, ops |-> ops, operands |-> operands], toks)

ParseCmpTail(first, ops, operands, toks) ==
  ParseCmpOp(first, ops, operands, toks, CmpOpAt(toks))

ParseBinaryLeft(level, l) ==
  IF l.ok THEN ParseBinaryTail(level, l.ast, l.rest) ELSE ParseFail

\* the left-associative binary operators of one level
ParseBinary(level, toks) ==
  IF level > Len(BinaryOps) THEN ParseFactor(toks)
  ELSE ParseBinaryLeft(level, ParseBinary(level + 1, toks))

ParseBinaryRight(level, left, op, r) ==
  IF r.ok
  THEN ParseBinaryTail(level, [n |-> "bin", op |-> op, a |-> left, b |-> r.ast], r.rest)
  ELSE ParseFail

ParseBinaryTail(level, left, toks) ==
  IF IsOneOf(toks, BinaryOps[level])
  THEN ParseBinaryRight(level, left, Head(toks).v, ParseBinary(level + 1, Tail(toks)))
  ELSE Parsed(left, toks)

\* op r for a unary operator and a parsed operand r
ParseUnaryOperand(op, r) ==
  IF r.ok THEN Parsed([n |-> "unary", op |-> op, a |-> r.ast], r.rest) ELSE ParseFail

\* factor: ('+' | '-' | '~') factor | power
ParseFactor(toks) ==
  IF IsOneOf(toks, {"+", "-", "~"})
  THEN ParseUnaryOperand(Head(toks).v, ParseFactor(Tail(toks)))
  ELSE ParsePower(toks)

\* primary '**' factor, once the factor is parsed
ParseExponent(p, r) ==
  IF r.ok THEN Parsed([n |-> "bin", op |-> "**", a |-> p.ast, b |-> r.ast], r.rest)
  ELSE ParseFail

\* what follows the primary of a power
ParsePrimary(p) ==
  IF ~p.ok THEN ParseFail
  ELSE IF ~IsOp(p.rest, "**") THEN p
  ELSE ParseExponent(p, ParseFactor(Tail(p.rest)))

\* power: primary ['**' factor]
ParsePower(toks) == ParsePrimary(ParseLeft(ParseAtom(toks), ParseTrailers))

\* primary: the calls that follow an atom
ParseTrailers(left, toks) ==
  IF ~IsOp(toks, "(") THEN Parsed(left, toks)
  ELSE IF IsOp(Tail(toks), ")")
  THEN ParseTrailers([n |-> "call", f |-> left, args |-> <<>>], Tail(Tail(toks)))
  ELSE ParseLeft(ParseArgs([n |-> "call", f |-> left, args |-> <<>>], Tail(toks)),
                 ParseTrailers)

\* '(' expression ')', once the expression is parsed
ParseGroup(r) ==
  IF r.ok /\ IsOp(r.rest, ")") THEN Parsed(r.ast, Tail(r.rest)) ELSE ParseFail

ParseAtom(toks) ==
  IF toks = <<>> THEN ParseFail
  ELSE IF Head(toks).k = "num" THEN Parsed(Const(Head(toks).v), Tail(toks))
  ELSE IF Head(toks).k = "str" THEN ParseStrings(Head(toks).v, Tail(toks))
  ELSE IF IsOp(toks, "(") THEN ParseGroup(ParseExpression(Tail(toks)))
  ELSE IF Head(toks).k # "name" THEN ParseFail
  ELSE IF Head(toks).v = KwTrue THEN Parsed(Const(Bool(TRUE)), Tail(toks))
  ELSE IF Head(toks).v = KwFalse THEN Parsed(Const(Bool(FALSE)), Tail(toks))
  ELSE IF Head(toks).v = KwNone THEN Parsed(Const(None), Tail(toks))
  ELSE IF Head(toks).v \in Keywords THEN ParseFail
  ELSE Parsed([n |-> "name", v |-> Head(toks).v], Tail(toks))

\* adjacent string literals are one str
ParseStrings(value, toks) ==
  IF toks # <<>> /\ Head(toks).k = "str"
  THEN ParseStrings(IF IsOutside(value) \/ IsOutside(Head(toks).v) THEN Outside
                    ELSE Str(value.v \o Head(toks).v.v), Tail(toks))
  ELSE Parsed(Const(value), toks)

\* the call with one more argument r, and what follows it
ParseArgument(call, r) ==
  IF ~r.ok THEN ParseFail
  ELSE IF IsOp(r.rest, ")")
       THEN Parsed([call EXCEPT !.args = Append(@, r.ast)], Tail(r.rest))
  ELSE IF IsOp(r.rest, ",") /\ IsOp(Tail(r.rest), ")")
       THEN Parsed([call EXCEPT !.args = Append(@, r.ast)], Tail(Tail(r.rest)))
  ELSE IF IsOp(r.rest, ",")
       THEN ParseArgs([call EXCEPT !.args = Append(@, r.ast)], Tail(r.rest))
  ELSE ParseFail

\* the arguments of a call, after "(" or ","; a comma may follow the last one
ParseArgs(call, toks) == ParseArgument(call, ParseExpression(toks))

Builtin(name) == [t |-> "builtin", v |-> name]

\* the names of restricted_globals["__builtins__"] that are functions or types
BuiltinNames == BuiltinFunctions \cup BuiltinTypes

\* a finite number as sign, whole part and fraction digits
NumKey(x) ==
  CASE x.t = "bool" -> [neg |-> FALSE, whole |-> IF x.v THEN 1 ELSE 0, frac |-> <<>>]
    [] x.t = "int" -> [neg |-> x.v < 0, whole |-> IF x.v < 0 THEN 0 - x.v ELSE x.v,
                       frac |-> <<>>]
    [] x.t = "float" -> [neg |-> x.neg, whole |-> x.whole, frac |-> x.frac]

IsZero(key) == key.whole = 0 /\ key.frac = <<>>

\* the key is below zero
Below(key) == key.neg /\ ~IsZero(key)

\* |a| < |b|
MagLess(a, b) == a.whole < b.whole \/ (a.whole = b.whole /\ StrLess(a.frac, b.frac))

\* a == b for two numbers
NumEq(a, b) ==
  IF a.t = "nan" \/ b.t = "nan" THEN FALSE
  ELSE IF a.t = "inf" \/ b.t = "inf" THEN a.t = b.t /\ a.neg = b.neg
  ELSE LET x == NumKey(a)
           y == NumKey(b)
       IN x.whole = y.whole /\ x.frac = y.frac /\ (x.neg = y.neg \/ IsZero(x))

\* a < b for two numbers
NumLess(a, b) ==
  IF a.t = "nan" \/ b.t = "nan" THEN FALSE
  ELSE IF a.t = "inf" THEN a.neg /\ ~(b.t = "inf" /\ b.neg)
  ELSE IF b.t = "inf" THEN ~b.neg
  ELSE LET x == NumKey(a)
           y == NumKey(b)
       IN IF Below(x) THEN (IF Below(y) THEN MagLess(y, x) ELSE TRUE)
          ELSE ~Below(y) /\ MagLess(x, y)

\* a == b
PyEq(a, b) ==
  IF IsNumeric(a) /\ IsNumeric(b) THEN NumEq(a, b)
  ELSE IF a.t = "str" /\ b.t = "str" THEN a.v = b.v
  ELSE IF a.t = "builtin" /\ b.t = "builtin" THEN a.v = b.v
  ELSE a.t = "none" /\ b.t = "none"

\* a < b; the caller has checked that a and b can be ordered
PyLess(a, b) == IF a.t = "str" THEN StrLess(a.v, b.v) ELSE NumLess(a, b)

Orderable(a, b) == (IsNumeric(a) /\ IsNumeric(b)) \/ (a.t = "str" /\ b.t = "str")

\* a in b for two str
IsSubstring(a, b) ==
  \E m \in 0..(Len(b) - Len(a)) : SubSeq(b, m + 1, m + Len(a)) = a

\* the class of a value
TypeOf(x) == IF IsFloat(x) THEN "float" ELSE x.t

\* a is b: None, True, False and the whitelisted functions are single objects;
\* whether two equal numbers or two equal str are one object is not modelled
Identical(a, b) ==
  IF TypeOf(a) # TypeOf(b) THEN Bool(FALSE)
  ELSE IF a.t \in {"none", "bool", "builtin"} THEN Bool(a = b)
  ELSE Outside

Negated(x) == IF Stops(x) THEN x ELSE Bool(~x.v)

\* a op b for one comparison operator
Compare(op, a, b) ==
  IF op = "==" THEN Bool(PyEq(a, b))
  ELSE IF op = "!=" THEN Bool(~PyEq(a, b))
  ELSE IF op = "is" THEN Identical(a, b)
  ELSE IF op = "is not" THEN Negated(Identical(a, b))
  ELSE IF op \in {"in", "not in"}
       THEN IF a.t # "str" \/ b.t # "str" THEN TypeError
            ELSE Bool(IsSubstring(a.v, b.v) = (op = "in"))
  ELSE IF ~Orderable(a, b) THEN TypeError
  ELSE IF op = "<" THEN Bool(PyLess(a, b))
  ELSE IF op = ">" THEN Bool(PyLess(b, a))
  ELSE IF op = "<=" THEN Bool(PyLess(a, b) \/ PyEq(a, b))
  ELSE Bool(PyLess(b, a) \/ PyEq(a, b))

\* the int n, when the representation holds it
BoundedInt(n) ==
  IF Len(Digits(IF n < 0 THEN 0 - n ELSE n)) > MaxWholeDigits THEN Outside ELSE PyInt(n)

\* the int of a bool or an int
IntValue(x) == IF x.t = "bool" THEN (IF x.v THEN 1 ELSE 0) ELSE x.v

Abs(n) == IF n < 0 THEN 0 - n ELSE n

\* floor(a / b) for b # 0
FloorDiv(a, b) ==
  LET q == Abs(a) \div Abs(b)
  IN IF (a < 0) = (b < 0) \/ a = 0 THEN q
     ELSE IF Abs(a) % Abs(b) = 0 THEN 0 - q
     ELSE 0 - q - 1

\* the number is zero
IsZeroNumber(x) ==
  x.t \in {"bool", "int", "float"} /\ IsZero(NumKey(x))

\* a op b for two ints (bool included)
IntBinary(op, a, b) ==
  LET x == IntValue(a)
      y == IntValue(b)
  IN CASE op = "+" -> BoundedInt(x + y)
       [] op = "-" -> BoundedInt(x - y)
       [] op = "*" -> IF Abs(x) > 10000 \/ Abs(y) > 10000 THEN Outside
                      ELSE BoundedInt(x * y)
       [] op = "/" -> IF y = 0 THEN Raise("ZeroDivisionError")
                      ELSE IF Abs(x) % Abs(y) # 0 THEN Outside
                      ELSE Float((x < 0) # (y < 0), Abs(x) \div Abs(y), <<>>)
       [] op = "//" -> IF y = 0 THEN Raise("ZeroDivisionError")
                       ELSE PyInt(FloorDiv(x, y))
       [] op = "%" -> IF y = 0 THEN Raise("ZeroDivisionError")
                      ELSE PyInt(x - y * FloorDiv(x, y))
       [] op \in {"&", "|", "^"} ->
            IF a.t = "bool" /\ b.t = "bool"
            THEN Bool(CASE op = "&" -> a.v /\ b.v
                        [] op = "|" -> a.v \/ b.v
                        [] op = "^" -> a.v # b.v)
            ELSE Outside
       [] op \in {"**", "<<", ">>"} -> Outside
       [] op = "@" -> TypeError

\* a op b for two numbers, one of them a float
FloatBinary(op, a, b) ==
  IF op \in {"/", "//", "%"} /\ IsZeroNumber(b) THEN Raise("ZeroDivisionError")
  ELSE IF op \in {"+", "-", "*", "/", "//", "%", "**"} THEN Outside
  ELSE TypeError

\* int, str, float, bool (the types) and None
IsTypeOrNone(x) == x.t = "none" \/ (x.t = "builtin" /\ x.v \in BuiltinTypes)

\* a op b for one binary operator
Binary(op, a, b) ==
  IF IsInt(a) /\ IsInt(b) THEN IntBinary(op, a, b)
  ELSE IF IsNumeric(a) /\ IsNumeric(b) THEN FloatBinary(op, a, b)
  ELSE IF a.t = "str" /\ b.t = "str" /\ op = "+" THEN Str(a.v \o b.v)
  ELSE IF a.t = "str" /\ op = "%" THEN Outside
  ELSE IF op = "*" /\ ((a.t = "str" /\ IsInt(b)) \/ (IsInt(a) /\ b.t = "str"))
       THEN Outside
  ELSE IF op = "|" /\ IsTypeOrNone(a) /\ IsTypeOrNone(b) /\ "builtin" \in {a.t, b.t}
       THEN Outside
  ELSE TypeError

\* op a for one unary operator
Unary(op, a) ==
  IF IsInt(a)
  THEN CASE op = "-" -> PyInt(0 - IntValue(a))
         [] op = "+" -> PyInt(IntValue(a))
         [] op = "~" -> BoundedInt(0 - IntValue(a) - 1)
  ELSE IF IsFloat(a) /\ op = "+" THEN a
  ELSE IF IsFloat(a) /\ op = "-"
       THEN IF a.t = "nan" THEN a ELSE [a EXCEPT !.neg = ~@]
  ELSE TypeError

\* max(args) and min(args) for two or more arguments: the first argument,
\* replaced by each later one that is greater (smaller)
RECURSIVE Extreme(_, _, _)
Extreme(pick, best, args) ==
  IF args = <<>> THEN best
  ELSE IF ~Orderable(Head(args), best) THEN TypeError
  ELSE IF pick = "min"
       THEN Extreme(pick, IF PyLess(Head(args), best) THEN Head(args) ELSE best, Tail(args))
  ELSE Extreme(pick, IF PyLess(best, Head(args)) THEN Head(args) ELSE best, Tail(args))

\* round(x) of a finite float: to the nearest integer, ties to even
RoundFloat(x) ==
  LET up == x.frac # <<>> /\ (\/ StrLess(<<"5">>, x.frac)
                              \/ (x.frac = <<"5">> /\ x.whole % 2 = 1))
  IN SignedInt(x.neg, IF up THEN x.whole + 1 ELSE x.whole)

\* A call of a whitelisted function.
CallBuiltin(f, args) ==
  LET x == args[1]
      n == Len(args)
  IN CASE f = <<"a","b","s">> ->
            IF n # 1 THEN TypeError
            ELSE IF IsInt(x) THEN PyInt(Abs(IntValue(x)))
            ELSE IF x.t = "nan" THEN x
            ELSE IF IsFloat(x) THEN [x EXCEPT !.neg = FALSE]
            ELSE TypeError
       [] f = <<"l","e","n">> ->
            IF n = 1 /\ x.t = "str" THEN PyInt(Len(x.v)) ELSE TypeError
       [] f = <<"r","o","u","n","d">> ->
            IF n = 0 \/ n > 2 \/ ~IsNumeric(x) THEN TypeError
            ELSE IF n = 2 THEN Outside
            ELSE IF IsInt(x) THEN PyInt(IntValue(x))
            ELSE IF x.t = "inf" THEN Raise("OverflowError")
            ELSE IF x.t = "nan" THEN ValueError
            ELSE RoundFloat(x)
       [] f \in {<<"m","i","n">>, <<"m","a","x">>} ->
            IF n = 0 THEN TypeError
            ELSE IF n >= 2
                 THEN Extreme(IF f = <<"m","i","n">> THEN "min" ELSE "max", x, Tail(args))
            ELSE IF x.t # "str" THEN TypeError
            ELSE IF x.v = <<>> THEN ValueError
            ELSE Extreme(IF f = <<"m","i","n">> THEN "min" ELSE "max", Str(<<Head(x.v)>>),
                         [m \in 1..(Len(x.v) - 1) |-> Str(<<x.v[m + 1]>>)])
       [] f = <<"s","t","r">> ->
            IF n = 0 THEN Str(<<>>) ELSE IF n = 1 THEN StrOf(x) ELSE TypeError
       [] f = <<"b","o","o","l">> ->
            IF n = 0 THEN Bool(FALSE) ELSE IF n = 1 THEN BoolOf(x) ELSE TypeError
       [] f = <<"f","l","o","a","t">> ->
            IF n = 0 THEN Float(FALSE, 0, <<>>) ELSE IF n = 1 THEN FloatOf(x)
            ELSE TypeError
       [] f = <<"i","n","t">> ->
            IF n = 0 THEN PyInt(0) ELSE IF n = 1 THEN IntOf(x)
            ELSE IF n = 2 THEN Outside ELSE TypeError

RECURSIVE Eval(_, _), EvalChain(_, _, _, _), EvalArgs(_, _, _, _)

\* the value of an expression tree, or the exception it raises
Eval(ast, scope) ==
  CASE ast.n = "const" -> ast.v
    [] ast.n = "name" ->
         IF ast.v = <<"_","_","d","e","b","u","g","_","_">> THEN Bool(TRUE)
         ELSE IF ast.v \in DOMAIN scope THEN scope[ast.v]
         ELSE IF ast.v = <<"_","_","b","u","i","l","t","i","n","s","_","_">> THEN Outside
         ELSE IF ast.v \in BuiltinNames THEN Builtin(ast.v)
         ELSE Raise("NameError")
    [] ast.n = "not" ->
         LET a == Eval(ast.a, scope) IN IF Stops(a) THEN a ELSE Bool(~Truthy(a))
    [] ast.n = "and" ->
         LET a == Eval(ast.a, scope)
         IN IF Stops(a) \/ ~Truthy(a) THEN a ELSE Eval(ast.b, scope)
    [] ast.n = "or" ->
         LET a == Eval(ast.a, scope)
         IN IF Stops(a) \/ Truthy(a) THEN a ELSE Eval(ast.b, scope)
    [] ast.n = "ifelse" ->
         LET test == Eval(ast.test, scope)
         IN IF Stops(test) THEN test
            ELSE IF Truthy(test) THEN Eval(ast.a, scope)
            ELSE Eval(ast.b, scope)
    [] ast.n = "cmp" ->
         LET first == Eval(ast.first, scope)
         IN IF Stops(first) THEN first
            ELSE EvalChain(first, ast.ops, ast.operands, scope)
    [] ast.n = "unary" ->
         LET a == Eval(ast.a, scope) IN IF Stops(a) THEN a ELSE Unary(ast.op, a)
    [] ast.n = "bin" ->
         LET a == Eval(ast.a, scope)
             b == Eval(ast.b, scope)
         IN IF Stops(a) THEN a ELSE IF Stops(b) THEN b ELSE Binary(ast.op, a, b)
    [] ast.n = "call" ->
         LET f == Eval(ast.f, scope)
         IN IF Stops(f) THEN f ELSE EvalArgs(f, ast.args, <<>>, scope)

\* left op x, once x is evaluated to right: the result r of the comparison
\* ends the chain, or the chain goes on from right
EvalCompared(right, r, ops, operands, scope) ==
  IF Stops(r) \/ Len(ops) = 1 \/ ~r.v THEN r
  ELSE EvalChain(right, Tail(ops), Tail(operands), scope)

EvalOperand(left, right, ops, operands, scope) ==
  IF Stops(right) THEN right
  ELSE EvalCompared(right, Compare(Head(ops), left, right), ops, operands, scope)

\* left op1 x1 op2 x2 ...: the operands are evaluated as far as the chain goes
EvalChain(left, ops, operands, scope) ==
  EvalOperand(left, Eval(Head(operands), scope), ops, operands, scope)

EvalArgument(f, args, done, x, scope) ==
  IF Stops(x) THEN x ELSE EvalArgs(f, Tail(args), Append(done, x), scope)

\* the arguments of a call, left to right, then the call
EvalArgs(f, args, done, scope) ==
  IF args = <<>>
  THEN IF f.t = "builtin" THEN CallBuiltin(f.v, done) ELSE TypeError
  ELSE EvalArgument(f, args, done, Eval(Head(args), scope), scope)

\* the names among the tokens
TokenNames(toks) == {toks[n].v : n \in {m \in 1..Len(toks) : toks[m].k = "name"}}

\* the value of the parsed text
EvalParsed(p, eval_scope) ==
  IF ~p.ok \/ p.rest # <<>> THEN Raise("SyntaxError") ELSE Eval(p.ast, eval_scope)

\* The parser and the compiler of CPython give up (MemoryError,
\* RecursionError, "too many nested parentheses") on an expression nested
\* too deep, each token adding less than thirty of the 6000 levels the parser
\* takes: nothing is said about a text of more than MaxTokens tokens.
MaxTokens == 150

\* the value of the tokens of a text
EvalTokens(toks, eval_scope) ==
  IF Len(toks) > MaxTokens THEN Outside
  ELSE IF \E n \in 1..Len(toks) : toks[n].k = "bad" THEN Raise("SyntaxError")
  ELSE IF TokenNames(toks) \cap StatementKeywords # {} THEN Raise("SyntaxError")
  ELSE IF /\ KwFrom \in TokenNames(toks)
          /\ KwYield \notin TokenNames(toks)
       THEN Raise("SyntaxError")
  ELSE IF \/ \E n \in 1..Len(toks) : toks[n].k = "ext"
          \/ TokenNames(toks) \cap OtherKeywords # {}
          \/ HasTupleOrStar(toks, Tok("op", "("), <<>>)
       THEN Outside
  ELSE EvalParsed(ParseExpression(toks), eval_scope)

\* eval(code_line, restricted_globals, eval_scope): the value, or the
\* exception raised (SyntaxError when the text is no expression)
PyEval(code_line, eval_scope) == EvalTokens(Tokenize(code_line), eval_scope)

----------------------------------------------------------------------------
(* Graph loading: WorkflowEngine._load_workflow_from_data                   *)
(* A workflow description is a record with the optional fields nodes and    *)
(* connections; the empty dict is <<>>.  engine.nodes is the sequence of its *)
(* values in insertion order; the adjacency maps are functions of node id.   *)

ACTION_IMPLEMENTATIONS == {"DISCARD"}

NodeEntry(node_data) ==
  [id |-> node_data.id,
   type |-> node_data.type,
   label |-> Get(node_data, "label", node_data.type),
   num_inputs |-> Get(node_data, "numInputs", 0),
   num_outputs |-> Get(node_data, "numOutputs", 0),
   data |-> node_data]

\* self.nodes[node_id] = {...} for every descriptor: a repeated id keeps its
\* place in the dict and takes the later value
RECURSIVE LoadNodes(_, _)
LoadNodes(descriptors, loaded) ==
  IF descriptors = <<>> THEN loaded
  ELSE LET e == NodeEntry(Head(descriptors))
       IN IF \E n \in 1..Len(loaded) : loaded[n].id = e.id
          THEN LoadNodes(Tail(descriptors),
                         [n \in 1..Len(loaded) |->
                            IF loaded[n].id = e.id THEN e ELSE loaded[n]])
          ELSE LoadNodes(Tail(descriptors), Append(loaded, e))

NodeIds(loaded) == {loaded[n].id : n \in 1..Len(loaded)}

\* list(self.nodes.keys())
NodeKeys(loaded) == [n \in 1..Len(loaded) |-> loaded[n].id]

\* self.nodes.get(node_id)
NodeOf(loaded, node_id) == loaded[CHOOSE n \in 1..Len(loaded) : loaded[n].id = node_id]

ConnInfo(conn_data) ==
  [source_id |-> conn_data.sourceNodeId,
   source_output_key |-> conn_data.sourceOutputKey,
   target_id |-> conn_data.targetNodeId,
   target_input_key |-> conn_data.targetInputKey,
   id |-> conn_data.id]

\* a loader that looks at the source of a connection only
RECURSIVE LoadConnectionsSourceOnly(_, _)
LoadConnectionsSourceOnly(descriptors, ids) ==
  IF descriptors = <<>> THEN <<>>
  ELSE IF Head(descriptors).sourceNodeId \notin ids
       THEN LoadConnectionsSourceOnly(Tail(descriptors), ids)
  ELSE <<ConnInfo(Head(descriptors))>> \o LoadConnectionsSourceOnly(Tail(descriptors), ids)

\* the connections kept: both endpoints are loaded nodes
RECURSIVE LoadConnections(_, _)
LoadConnections(descriptors, ids) ==
  IF descriptors = <<>> THEN <<>>
  ELSE IF Head(descriptors).sourceNodeId \notin ids
          \/ Head(descriptors).targetNodeId \notin ids
       THEN LoadConnections(Tail(descriptors), ids)
  ELSE <<ConnInfo(Head(descriptors))>> \o LoadConnections(Tail(descriptors), ids)

SelectBySource(conns, node_id) == SelectSeq(conns, LAMBDA c : c.source_id = node_id)

SelectByTarget(conns, node_id) == SelectSeq(conns, LAMBDA c : c.target_id = node_id)

\* the three attributes after _load_workflow_from_data(workflow)
_load_workflow_from_data(workflow) ==
  IF DOMAIN workflow = {}
  THEN [nodes |-> <<>>, connections_from_source |-> <<>>, connections_to_target |-> <<>>]
  ELSE LET loaded == LoadNodes(Get(workflow, "nodes", <<>>), <<>>)
           kept == LoadConnections(Get(workflow, "connections", <<>>), NodeIds(loaded))
       IN [nodes |-> loaded,
           connections_from_source |->
             [id \in NodeIds(loaded) |-> SelectBySource(kept, id)],
           connections_to_target |->
             [id \in NodeIds(loaded) |-> SelectByTarget(kept, id)]]

----------------------------------------------------------------------------
(* Topological ordering: WorkflowEngine._get_topological_order              *)

\* a target is queued as soon as one of its sources is done
RECURSIVE RelaxEager(_, _, _, _)
RelaxEager(conns, in_degree, queue, visited_in_sort) ==
  IF conns = <<>> THEN [in_degree |-> in_degree, queue |-> queue]
  ELSE LET v_id == Head(conns).target_id
       IN IF v_id \in DOMAIN in_degree
          THEN RelaxEager(Tail(conns), [in_degree EXCEPT ![v_id] = @ - 1],
                          IF v_id \notin visited_in_sort THEN Append(queue, v_id)
                          ELSE queue,
                          visited_in_sort)
          ELSE RelaxEager(Tail(conns), in_degree, queue, visited_in_sort)

\* "for conn_info in connections_from_source[u_id]": the in-degrees and the
\* queue after the loop (backend engine: a visited target is not queued)
RECURSIVE Relax(_, _, _, _)
Relax(conns, in_degree, queue, visited_in_sort) ==
  IF conns = <<>> THEN [in_degree |-> in_degree, queue |-> queue]
  ELSE LET v_id == Head(conns).target_id
       IN IF v_id \in DOMAIN in_degree
          THEN LET d == [in_degree EXCEPT ![v_id] = @ - 1]
               IN Relax(Tail(conns), d,
                        IF d[v_id] = 0 /\ v_id \notin visited_in_sort
                        THEN Append(queue, v_id) ELSE queue,
                        visited_in_sort)
          ELSE Relax(Tail(conns), in_degree, queue, visited_in_sort)

\* "while queue": sorted_order when the queue is empty
RECURSIVE Kahn(_, _, _, _, _)
Kahn(queue, sorted_order, visited_in_sort, in_degree, from_source) ==
  IF queue = <<>> THEN sorted_order
  ELSE LET u_id == Head(queue)
       IN IF u_id \in visited_in_sort
          THEN Kahn(Tail(queue), sorted_order, visited_in_sort, in_degree, from_source)
          ELSE LET r == Relax(Get(from_source, u_id, <<>>), in_degree, Tail(queue),
                              visited_in_sort \cup {u_id})
               IN Kahn(r.queue, Append(sorted_order, u_id), visited_in_sort \cup {u_id},
                       r.in_degree, from_source)

\* a sort that returns what Kahn's pass reached and nothing more
AppendNothing(sorted_order, keys) == sorted_order

\* the nodes of keys that sorted_order lacks, appended in dict order
RECURSIVE AppendMissing(_, _)
AppendMissing(sorted_order, keys) ==
  IF keys = <<>> THEN sorted_order
  ELSE IF \E n \in 1..Len(sorted_order) : sorted_order[n] = Head(keys)
       THEN AppendMissing(sorted_order, Tail(keys))
  ELSE AppendMissing(Append(sorted_order, Head(keys)), Tail(keys))

InDegree(loaded, to_target) ==
  [id \in NodeIds(loaded) |-> Len(Get(to_target, id, <<>>))]

_get_topological_order(loaded, from_source, to_target) ==
  IF loaded = <<>> THEN <<>>
  ELSE LET in_degree == InDegree(loaded, to_target)
           queue == SelectSeq(NodeKeys(loaded), LAMBDA id : in_degree[id] = 0)
           sorted_order == Kahn(queue, <<>>, {}, in_degree, from_source)
       IN IF Len(sorted_order) # Len(loaded)
          THEN AppendMissing(sorted_order, NodeKeys(loaded))
          ELSE sorted_order

\* The stand-alone engine (src/pharma_automation.py) keeps no visited set.
RECURSIVE RelaxStandalone(_, _, _)
RelaxStandalone(conns, in_degree, queue) ==
  IF conns = <<>> THEN [in_degree |-> in_degree, queue |-> queue]
  ELSE LET v_id == Head(conns).target_id
       IN IF v_id \in DOMAIN in_degree
          THEN LET d == [in_degree EXCEPT ![v_id] = @ - 1]
               IN RelaxStandalone(Tail(conns), d,
                                  IF d[v_id] = 0 THEN Append(queue, v_id) ELSE queue)
          ELSE RelaxStandalone(Tail(conns), in_degree, queue)

RECURSIVE KahnStandalone(_, _, _, _)
KahnStandalone(queue, sorted_order, in_degree, from_source) ==
  IF queue = <<>> THEN sorted_order
  ELSE LET r == RelaxStandalone(Get(from_source, Head(queue), <<>>), in_degree,
                                Tail(queue))
       IN KahnStandalone(r.queue, Append(sorted_order, Head(queue)), r.in_degree,
                         from_source)

_get_topological_order_standalone(loaded, from_source, to_target) ==
  IF loaded = <<>> THEN <<>>
  ELSE LET in_degree == InDegree(loaded, to_target)
           queue == SelectSeq(NodeKeys(loaded), LAMBDA id : in_degree[id] = 0)
           sorted_order == KahnStandalone(queue, <<>>, in_degree, from_source)
       IN IF Len(sorted_order) # Len(loaded)
          THEN AppendMissing(sorted_order, NodeKeys(loaded))
          ELSE sorted_order

\* WorkflowEngine.__init__: the engine's four attributes
WorkflowEngine(workflow) ==
  LET g == _load_workflow_from_data(workflow)
      order == _get_topological_order(g.nodes, g.connections_from_source,
                                      g.connections_to_target)
  IN [nodes |-> g.nodes,
      connections_from_source |-> g.connections_from_source,
      connections_to_target |-> g.connections_to_target,
      node_order |-> IF order = <<>> /\ g.nodes # <<>> THEN NodeKeys(g.nodes) ELSE order]

----------------------------------------------------------------------------
(* One row through the graph: WorkflowEngine.process_event                  *)

\* f"output{i}" and f"input{i}"
OutputKey(n) == "output" \o ToString(n)

InputKey(n) == "input" \o ToString(n)

\* a slot that was not written reads as true
RECURSIVE GatherInputsDefaultTrue(_, _, _)
GatherInputsDefaultTrue(incoming_connections, outputs, current_node_inputs_values) ==
  IF incoming_connections = <<>> THEN current_node_inputs_values
  ELSE LET conn == Head(incoming_connections)
           input_value == Get(Get(outputs, conn.source_id, <<>>),
                              conn.source_output_key, TRUE)
       IN GatherInputsDefaultTrue(Tail(incoming_connections), outputs,
                                  (conn.target_input_key :> input_value)
                                    @@ current_node_inputs_values)

\* a loop that keeps the first value a slot received
RECURSIVE GatherInputsFirstWins(_, _, _)
GatherInputsFirstWins(incoming_connections, outputs, current_node_inputs_values) ==
  IF incoming_connections = <<>> THEN current_node_inputs_values
  ELSE LET conn == Head(incoming_connections)
           input_value == Get(Get(outputs, conn.source_id, <<>>),
                              conn.source_output_key, FALSE)
       IN GatherInputsFirstWins(Tail(incoming_connections), outputs,
                                current_node_inputs_values
                                  @@ (conn.target_input_key :> input_value))

\* current_node_inputs_values after the loop over incoming_connections: a
\* later connection to the same slot overwrites an earlier one
RECURSIVE GatherInputs(_, _, _)
GatherInputs(incoming_connections, outputs, current_node_inputs_values) ==
  IF incoming_connections = <<>> THEN current_node_inputs_values
  ELSE LET conn == Head(incoming_connections)
           input_value == Get(Get(outputs, conn.source_id, <<>>),
                              conn.source_output_key, FALSE)
       IN GatherInputs(Tail(incoming_connections), outputs,
                       (conn.target_input_key :> input_value)
                         @@ current_node_inputs_values)

\* the same loop in the stand-alone engine (src/pharma_automation.py): the
\* slot is looked up with two membership tests
RECURSIVE GatherInputsStandalone(_, _, _)
GatherInputsStandalone(incoming_connections, outputs, current_node_inputs_values) ==
  IF incoming_connections = <<>> THEN current_node_inputs_values
  ELSE LET conn == Head(incoming_connections)
           input_value ==
             IF /\ conn.source_id \in DOMAIN outputs
                /\ conn.source_output_key \in DOMAIN outputs[conn.source_id]
             THEN outputs[conn.source_id][conn.source_output_key]
             ELSE FALSE
       IN GatherInputsStandalone(Tail(incoming_connections), outputs,
                                 (conn.target_input_key :> input_value)
                                   @@ current_node_inputs_values)

IsQuoted(var_name) ==
  \/ Head(var_name) = "'" /\ var_name[Len(var_name)] = "'"
  \/ Head(var_name) = "\"" /\ var_name[Len(var_name)] = "\""

RECURSIVE BuildEvalScope(_, _, _, _)

\* the body of the loop for a var_name that is a column of the row, once
\* its value is cast
ScopeWithCast(var_names, row_data, rule_variable_type, eval_scope, casted_value) ==
  IF IsRaise(casted_value)
  THEN [possible_to_evaluate_rule |-> FALSE, eval_scope |-> eval_scope,
        raised |-> casted_value]
  ELSE IF casted_value.t = "none" /\ row_data[Head(var_names)].t # "none"
  THEN [possible_to_evaluate_rule |-> FALSE, eval_scope |-> eval_scope, raised |-> None]
  ELSE BuildEvalScope(Tail(var_names), row_data, rule_variable_type,
                      (Head(var_names) :> casted_value) @@ eval_scope)

\* "for var_name in identifiers_in_code": the scope built, whether the rule
\* can be evaluated, and the exception _cast_value let through, if any
BuildEvalScope(var_names, row_data, rule_variable_type, eval_scope) ==
  IF var_names = <<>>
  THEN [possible_to_evaluate_rule |-> TRUE, eval_scope |-> eval_scope, raised |-> None]
  ELSE IF Head(var_names) \in DOMAIN row_data
  THEN ScopeWithCast(var_names, row_data, rule_variable_type, eval_scope,
                     _cast_value(row_data[Head(var_names)], rule_variable_type))
  ELSE IF Lower(Head(var_names)) = StrTrue
  THEN BuildEvalScope(Tail(var_names), row_data, rule_variable_type,
                      (Head(var_names) :> Bool(TRUE)) @@ eval_scope)
  ELSE IF Lower(Head(var_names)) = StrFalse
  THEN BuildEvalScope(Tail(var_names), row_data, rule_variable_type,
                      (Head(var_names) :> Bool(FALSE)) @@ eval_scope)
  ELSE IF ~(~IsRaise(FloatOfStr(Head(var_names))) \/ IsQuoted(Head(var_names)))
  THEN [possible_to_evaluate_rule |-> FALSE, eval_scope |-> eval_scope, raised |-> None]
  ELSE BuildEvalScope(Tail(var_names), row_data, rule_variable_type, eval_scope)

DefaultVariableType == <<"s","t","r">>

DefaultCodeLine == <<"F","a","l","s","e">>

\* the Rule branch up to the try statement: the loop over the identifiers
RuleScope(node_specific_data, row_data, seed) ==
  BuildEvalScope(
    IterationOrder(_get_variables_from_code_line(
                     Strip(Get(node_specific_data, "codeLine", DefaultCodeLine)), seed)),
    row_data, Lower(Get(node_specific_data, "variableType", DefaultVariableType)), <<>>)

\* an exception leaves the Rule branch (and process_event)
RuleRaises(node_specific_data, row_data, seed) ==
  IsRaise(RuleScope(node_specific_data, row_data, seed).raised)

\* bool(eval(...)) in the try statement: every exception of eval is caught
\* and gives False
EvalResult(eval_result) == IF IsRaise(eval_result) THEN FALSE ELSE Truthy(eval_result)

\* "result" of the Rule branch, given the outcome b of the loop
ResultInScope(code_line_to_eval, b) ==
  IF ~b.possible_to_evaluate_rule THEN FALSE
  ELSE EvalResult(PyEval(code_line_to_eval, b.eval_scope))

\* "result" of the Rule branch
RuleResult(node_specific_data, row_data, seed) ==
  ResultInScope(Strip(Get(node_specific_data, "codeLine", DefaultCodeLine)),
                RuleScope(node_specific_data, row_data, seed))

\* a Rule that writes its first output slot only
RuleOutputsFirstOnly(node_specific_data, res) ==
  [key \in {OutputKey(n) : n \in 0..(Get(node_specific_data, "numOutputs", 0) - 1)}
            \cap {"output0"} |-> res]

\* evaluated_outputs[node_id][f"output{i}"] = result for i in range(numOutputs)
RuleOutputs(node_specific_data, res) ==
  [key \in {OutputKey(n) : n \in 0..(Get(node_specific_data, "numOutputs", 0) - 1)}
     |-> res]

\* a conjunction over whatever slots the connections filled
AndOverPresent(node_specific_data, current_node_inputs_values) ==
  \A key \in DOMAIN current_node_inputs_values : current_node_inputs_values[key]

\* a loop that starts at input1
AndResultFromOne(node_specific_data, current_node_inputs_values) ==
  LET num_gate_inputs == Get(node_specific_data, "numInputs", 0)
  IN \A n \in 1..(num_gate_inputs - 1) :
       Get(current_node_inputs_values, InputKey(n), FALSE)

\* the AND branch
AndResult(node_specific_data, current_node_inputs_values) ==
  LET num_gate_inputs == Get(node_specific_data, "numInputs", 0)
  IN \A n \in 0..(num_gate_inputs - 1) :
       Get(current_node_inputs_values, InputKey(n), FALSE)

\* a disjunction over whatever slots the connections filled
OrOverPresent(node_specific_data, current_node_inputs_values) ==
  \E key \in DOMAIN current_node_inputs_values : current_node_inputs_values[key]

\* the OR branch
OrResult(node_specific_data, current_node_inputs_values) ==
  LET num_gate_inputs == Get(node_specific_data, "numInputs", 0)
  IN \E n \in 0..(num_gate_inputs - 1) :
       Get(current_node_inputs_values, InputKey(n), FALSE)

\* the AND branch of the stand-alone engine (src/pharma_automation.py)
AndResultStandalone(node, current_node_inputs_values) ==
  IF node.num_inputs = 0 THEN TRUE
  ELSE IF DOMAIN current_node_inputs_values = {} /\ node.num_inputs > 0 THEN FALSE
  ELSE \A n \in 0..(node.num_inputs - 1) :
         Get(current_node_inputs_values, InputKey(n), FALSE)

\* the OR branch of the stand-alone engine
OrResultStandalone(node, current_node_inputs_values) ==
  IF node.num_inputs > 0 /\ DOMAIN current_node_inputs_values # {}
  THEN \E n \in 0..(node.num_inputs - 1) :
         Get(current_node_inputs_values, InputKey(n), FALSE)
  ELSE FALSE

\* an action that does not look at its trigger input
ActionFiresUntriggered(node_display_label, current_node_inputs_values) ==
  node_display_label \in ACTION_IMPLEMENTATIONS

\* the Action branch: action_func is called
ActionFires(node_display_label, current_node_inputs_values) ==
  /\ node_display_label \in ACTION_IMPLEMENTATIONS
  /\ Get(current_node_inputs_values, "input0", FALSE)

\* the standalone engine calls the action and goes on with the next node
ActionNeverReturns(node_display_label) == FALSE

\* "if node_display_label == 'DISCARD': return 'DISCARD'"
ActionReturns(node_display_label) == node_display_label = "DISCARD"

\* an engine that keeps one map of outputs for all its events
KeptOutputs(loaded, previous) == [id \in NodeIds(loaded) |-> Get(previous, id, <<>>)]

\* "evaluated_outputs = {node_id: {} for node_id in self.nodes}": the map at
\* the entry of process_event, whatever the previous event left
FreshOutputs(loaded, previous) == [id \in NodeIds(loaded) |-> <<>>]

\* 'return "ACCEPT"' at the end of process_event
DefaultDecision(workflow) == "ACCEPT"

----------------------------------------------------------------------------
(* The run: run_workflow_processing                                         *)

Unset == [t |-> "unset"]

\* a driver that goes on with whatever engine it got
AnyEngineLoaded(loaded) == TRUE

\* "engine.nodes" as a condition: the engine holds at least one node
EngineLoaded(loaded) == loaded # <<>>

Text(msg) == [t |-> "text", v |-> msg]

\* the key of the decision in an output row
WorkflowDecisionKey ==
  <<"w","o","r","k","f","l","o","w","_","d","e","c","i","s","i","o","n">>

\* a tally that counts every row that was not accepted as an error
NotAccepted(d) == d # "ACCEPT"

\* "ERROR_" in decision
ErrorTagged(d) == d = "ERROR_WORKFLOW_ORDER"

CurrentId == node_order[k]

CurrentNode == NodeOf(nodes, CurrentId)

CurrentInputs ==
  GatherInputs(Get(connections_to_target, CurrentId, <<>>), evaluated_outputs, <<>>)

CurrentRow == all_input_data[i]

\* engine = WorkflowEngine(workflow_data_dict)
Construct ==
  /\ pc = "start"
  /\ LET engine == WorkflowEngine(workflow_data)
     IN /\ nodes' = engine.nodes
        /\ connections_from_source' = engine.connections_from_source
        /\ connections_to_target' = engine.connections_to_target
        /\ node_order' = engine.node_order
  /\ pc' = "constructed"
  /\ UNCHANGED <<workflow_data, csv_fieldnames, csv_rows, hash_seed, outfile, all_input_data, i, k,
                 evaluated_outputs, entered_node,
                 gathered_inputs, decision, action_calls,
                 processed_data_with_output, error_count, accepted_count,
                 discarded_count, result>>

\* "if not engine.nodes: return {error ...}"
FailedToLoad ==
  /\ pc = "constructed"
  /\ ~EngineLoaded(nodes)
  /\ result' = [error |-> Text("Workflow failed to load from provided data."),
                output_file |-> None, stats |-> None]
  /\ pc' = "done"
  /\ UNCHANGED <<workflow_data, csv_fieldnames, csv_rows, hash_seed, outfile, nodes, connections_from_source,
                 connections_to_target, node_order, all_input_data, i, k,
                 evaluated_outputs, entered_node,
                 gathered_inputs, decision, action_calls,
                 processed_data_with_output, error_count, accepted_count,
                 discarded_count>>

\* "if not all_input_data: return {error ...}"
NoData ==
  /\ pc = "constructed"
  /\ EngineLoaded(nodes)
  /\ load_csv_data_from_file(csv_fieldnames, csv_rows) = <<>>
  /\ all_input_data' = <<>>
  /\ result' = [error |-> Text("No data loaded"), output_file |-> None, stats |-> None]
  /\ pc' = "done"
  /\ UNCHANGED <<workflow_data, csv_fieldnames, csv_rows, hash_seed, outfile, nodes, connections_from_source,
                 connections_to_target, node_order, i, k, evaluated_outputs, entered_node,
                 gathered_inputs, decision,
                 action_calls, processed_data_with_output, error_count,
                 accepted_count, discarded_count>>

\* the data is loaded and the counters are set to zero
StartRows ==
  /\ pc = "constructed"
  /\ EngineLoaded(nodes)
  /\ load_csv_data_from_file(csv_fieldnames, csv_rows) # <<>>
  /\ all_input_data' = load_csv_data_from_file(csv_fieldnames, csv_rows)
  /\ processed_data_with_output' = <<>>
  /\ error_count' = 0
  /\ accepted_count' = 0
  /\ discarded_count' = 0
  /\ i' = 1
  /\ pc' = "rows"
  /\ UNCHANGED <<workflow_data, csv_fieldnames, csv_rows, hash_seed, outfile, nodes, connections_from_source,
                 connections_to_target, node_order, k, evaluated_outputs, entered_node,
                 gathered_inputs, decision,
                 action_calls, result>>

\* process_event is entered for row i: a fresh evaluated_outputs; without a
\* node order the event returns at once
BeginEvent ==
  /\ pc = "rows"
  /\ i <= Len(all_input_data)
  /\ evaluated_outputs' = FreshOutputs(nodes, evaluated_outputs)
  /\ entered_node' = ""
  /\ gathered_inputs' = <<>>
  /\ action_calls' = <<>>
  /\ k' = 1
  /\ IF node_order = <<>>
     THEN decision' = "ERROR_WORKFLOW_ORDER" /\ pc' = "tally"
     ELSE decision' = "" /\ pc' = "event"
  /\ UNCHANGED <<workflow_data, csv_fieldnames, csv_rows, hash_seed, outfile, nodes, connections_from_source,
                 connections_to_target, node_order, all_input_data, i,
                 processed_data_with_output, error_count, accepted_count,
                 discarded_count, result>>

\* the loop variable and the inputs gathered from the incoming connections
EnterNode ==
  /\ entered_node' = CurrentId
  /\ gathered_inputs' = CurrentInputs

UnchangedByNode ==
  UNCHANGED <<workflow_data, csv_fieldnames, csv_rows, hash_seed, outfile, nodes, connections_from_source,
              connections_to_target, node_order, all_input_data, i,
              processed_data_with_output, error_count, accepted_count,
              discarded_count>>

\* one iteration of "for node_id in self.node_order", node_type == "Rule"
EvalRule ==
  /\ pc = "event"
  /\ k <= Len(node_order)
  /\ CurrentNode.data.type = "Rule"
  /\ ~RuleRaises(CurrentNode.data, CurrentRow, hash_seed)
  /\ evaluated_outputs' =
       [evaluated_outputs EXCEPT ![CurrentId] =
          RuleOutputs(CurrentNode.data,
                      RuleResult(CurrentNode.data, CurrentRow, hash_seed)) @@ @]
  /\ k' = k + 1
  /\ UNCHANGED <<pc, decision, action_calls, result>>
  /\ EnterNode
  /\ UnchangedByNode

\* the Rule branch lets an exception of _cast_value through: it leaves
\* process_event and run_workflow_processing
EvalRuleRaises ==
  /\ pc = "event"
  /\ k <= Len(node_order)
  /\ CurrentNode.data.type = "Rule"
  /\ RuleRaises(CurrentNode.data, CurrentRow, hash_seed)
  /\ result' = RuleScope(CurrentNode.data, CurrentRow, hash_seed).raised
  /\ pc' = "raised"
  /\ UNCHANGED <<k, evaluated_outputs, decision, action_calls>>
  /\ EnterNode
  /\ UnchangedByNode

\* node_type == "AND"
EvalAND ==
  /\ pc = "event"
  /\ k <= Len(node_order)
  /\ CurrentNode.data.type = "AND"
  /\ evaluated_outputs' =
       [evaluated_outputs EXCEPT ![CurrentId] =
          ("output" :> AndResult(CurrentNode.data, CurrentInputs)) @@ @]
  /\ k' = k + 1
  /\ UNCHANGED <<pc, decision, action_calls, result>>
  /\ EnterNode
  /\ UnchangedByNode

\* node_type == "OR"
EvalOR ==
  /\ pc = "event"
  /\ k <= Len(node_order)
  /\ CurrentNode.data.type = "OR"
  /\ evaluated_outputs' =
       [evaluated_outputs EXCEPT ![CurrentId] =
          ("output" :> OrResult(CurrentNode.data, CurrentInputs)) @@ @]
  /\ k' = k + 1
  /\ UNCHANGED <<pc, decision, action_calls, result>>
  /\ EnterNode
  /\ UnchangedByNode

\* node_type == "Action": the action function is called when input0 is true,
\* and DISCARD returns from process_event
EvalAction ==
  /\ pc = "event"
  /\ k <= Len(node_order)
  /\ CurrentNode.data.type = "Action"
  /\ LET node_display_label == Get(CurrentNode.data, "label", CurrentNode.data.type)
         fires == ActionFires(node_display_label, CurrentInputs)
     IN /\ action_calls' = IF fires THEN Append(action_calls, CurrentId)
                           ELSE action_calls
        /\ IF fires /\ ActionReturns(node_display_label)
           THEN decision' = "DISCARD" /\ pc' = "tally" /\ k' = k
           ELSE decision' = decision /\ pc' = pc /\ k' = k + 1
  /\ UNCHANGED <<evaluated_outputs, result>>
  /\ EnterNode
  /\ UnchangedByNode

\* any other node type (Source): no branch of process_event applies
EvalOther ==
  /\ pc = "event"
  /\ k <= Len(node_order)
  /\ CurrentNode.data.type \notin {"Rule", "AND", "OR", "Action"}
  /\ k' = k + 1
  /\ UNCHANGED <<pc, evaluated_outputs, decision, action_calls, result>>
  /\ EnterNode
  /\ UnchangedByNode

\* the loop is over: return "ACCEPT"
ReturnAccept ==
  /\ pc = "event"
  /\ k > Len(node_order)
  /\ decision' = DefaultDecision(workflow_data)
  /\ pc' = "tally"
  /\ UNCHANGED <<k, evaluated_outputs, entered_node,
                 gathered_inputs, action_calls, result>>
  /\ UnchangedByNode

\* the output row and the counters for row i
RecordRow ==
  /\ pc = "tally"
  /\ processed_data_with_output' =
       Append(processed_data_with_output,
              (WorkflowDecisionKey :> [t |-> "decision", v |-> decision]) @@ CurrentRow)
  /\ error_count' = IF ErrorTagged(decision) THEN error_count + 1 ELSE error_count
  /\ discarded_count' =
       IF ~ErrorTagged(decision) /\ decision = "DISCARD" THEN discarded_count + 1
       ELSE discarded_count
  /\ accepted_count' =
       IF ~ErrorTagged(decision) /\ decision # "DISCARD" /\ decision = "ACCEPT"
       THEN accepted_count + 1 ELSE accepted_count
  /\ i' = i + 1
  /\ pc' = "rows"
  /\ UNCHANGED <<workflow_data, csv_fieldnames, csv_rows, hash_seed, outfile, nodes, connections_from_source,
                 connections_to_target, node_order, all_input_data, k,
                 evaluated_outputs, entered_node,
                 gathered_inputs, decision, action_calls, result>>

\* stats = {...}
Stats ==
  [t |-> "stats",
   total_processed |-> Len(all_input_data),
   accepted |-> accepted_count,
   discarded |-> discarded_count,
   errors |-> error_count]

\* a list without the occurrences of a name
RECURSIVE Without(_, _)
Without(names, name) ==
  IF names = <<>> THEN <<>>
  ELSE IF Head(names) = name THEN Without(Tail(names), name)
  ELSE <<Head(names)>> \o Without(Tail(names), name)

\* the keys of an output row in dict order: the stripped names of the header
\* line in the order of their first occurrence, then 'workflow_decision' if
\* it is no column of the input
OutputRowKeys(fieldnames) ==
  KeyOrder(StrippedFieldnames(fieldnames) \o <<WorkflowDecisionKey>>, {})

\* fieldnames = [k for k in keys if k != 'workflow_decision'] + ['workflow_decision']
OutputFieldnames(keys) == Without(keys, WorkflowDecisionKey) \o <<WorkflowDecisionKey>>

\* the field the csv writer makes of a value: the empty field of None, and
\* str(value) otherwise (the decision is a str already)
CsvField(value) ==
  IF value.t = "none" THEN Str(<<>>)
  ELSE IF value.t = "decision" THEN value
  ELSE StrOf(value)

\* writer.writerows: the fields of a row in the order of fieldnames
CsvLine(fieldnames, row) == [n \in DOMAIN fieldnames |-> CsvField(row[fieldnames[n]])]

\* writer.writeheader() and writer.writerows(processed_data_with_output)
WrittenCsv(fieldnames, rows) ==
  [t |-> "csv", fieldnames |-> fieldnames,
   rows |-> [n \in DOMAIN rows |-> CsvLine(fieldnames, rows[n])]]

\* a file the write left unfinished, or did not create
Incomplete == [t |-> "incomplete"]

\* what the file system can answer to os.makedirs, open and the writes
FileOutcomes == {"written", "write_fails", "makedirs_raises"}

\* All rows are done: the statistics, the output file and the returned
\* record. os.makedirs stands outside the try statement, so its exception
\* leaves the run; an exception of open or of a write is caught and reported
\* with the statistics.
Finish ==
  /\ pc = "rows"
  /\ i > Len(all_input_data)
  /\ \E outcome \in FileOutcomes :
       IF processed_data_with_output = <<>>
       THEN /\ outcome = "written"
            /\ result' = [error |-> Text("No data processed to write."),
                          output_file |-> None, stats |-> Stats]
            /\ outfile' = outfile
            /\ pc' = "done"
       ELSE IF outcome = "makedirs_raises"
       THEN /\ result' = Raise("OSError")
            /\ outfile' = outfile
            /\ pc' = "makedirs_raised"
       ELSE IF outcome = "write_fails"
       THEN /\ result' = [error |-> Text("Error writing output CSV"),
                          output_file |-> None, stats |-> Stats]
            /\ outfile' = Incomplete
            /\ pc' = "done"
       ELSE /\ result' = [error |-> None, output_file |-> Text("processed"),
                          stats |-> Stats]
            /\ outfile' = WrittenCsv(OutputFieldnames(OutputRowKeys(csv_fieldnames)),
                                     processed_data_with_output)
            /\ pc' = "done"
  /\ UNCHANGED <<workflow_data, csv_fieldnames, csv_rows, hash_seed, nodes,
                 connections_from_source,
                 connections_to_target, node_order, all_input_data, i, k,
                 evaluated_outputs, entered_node,
                 gathered_inputs, decision, action_calls,
                 processed_data_with_output, error_count, accepted_count,
                 discarded_count>>

Next ==
  \/ Construct
  \/ FailedToLoad
  \/ NoData
  \/ StartRows
  \/ BeginEvent
  \/ EvalRule
  \/ EvalRuleRaises
  \/ EvalAND
  \/ EvalOR
  \/ EvalAction
  \/ EvalOther
  \/ ReturnAccept
  \/ RecordRow
  \/ Finish

----------------------------------------------------------------------------
(* Inputs: workflow descriptions and CSV files                              *)

\* the longest connection list of a graph that is run on rows
MaxConns == 2

\* the longest connection list of a graph that is only loaded and ordered
MaxOrderConns == 3

\* the largest number of lines of a generated CSV file
MaxRows == 2

\* the largest declared numInputs of a generated gate; its connections may
\* also name the slot after the last declared one
MaxGateInputs == 2

\* the largest number of connections into a generated gate
MaxGateConns == 2

\* the largest declared numOutputs of a generated Rule; a connection may
\* also name the slot after the last declared one
MaxOutputs == 2

TypeFloat == <<"f","l","o","a","t">>

TypeInt == <<"i","n","t">>

TypeStr == <<"s","t","r">>

TypeBool == <<"b","o","o","l">>

TypeString == <<"s","t","r","i","n","g">>

ColWeight == <<"w","e","i","g","h","t">>

ColWeightPadded == <<" ","w","e","i","g","h","t"," ">>

ColColor == <<"c","o","l","o","r">>

ColCracked == <<"i","s","_","c","r","a","c","k","e","d">>

CodeWeight == <<"w","e","i","g","h","t"," ",">"," ","0",".","8">>

CodeLow == <<"w","e","i","g","h","t"," ",">"," ","0",".","4">>

CodeColorBlue == <<"c","o","l","o","r"," ","=","="," ","'","b","l","u","e","'">>

CodeColorHash == <<"c","o","l","o","r"," ","=","="," ","'","#","1","'">>

CodeCracked == <<"i","s","_","c","r","a","c","k","e","d"," ","=","="," ","T","r","u","e">>

CodeLimit == <<"w","e","i","g","h","t"," ",">"," ","l","i","m","i","t">>

CodeIncomplete == <<"w","e","i","g","h","t"," ",">">>

CodeBoth == <<"w","e","i","g","h","t"," ",">"," ","0",".","4"," ","a","n","d"," ","w","e","i","g","h","t"," ","<"," ","1",".","0">>

CodeAbs == <<"a","b","s","(","w","e","i","g","h","t",")"," ",">"," ","0",".","8">>

CodeMixed == <<"w","e","i","g","h","t"," ","<"," ","c","o","l","o","r">>

CodeTriple == <<"l","i","m","i","t"," ","<"," ","w","e","i","g","h","t"," ","<"," ","c","o","l","o","r">>

RuleNode(id, code_line, variable_type) ==
  [id |-> id, type |-> "Rule", label |-> "Rule", numInputs |-> 1, numOutputs |-> 1,
   codeLine |-> code_line, variableType |-> variable_type]

RuleNodeOut(id, code_line, variable_type, num_outputs) ==
  [RuleNode(id, code_line, variable_type) EXCEPT !.numOutputs = num_outputs]

GateNode(id, type, num_inputs) ==
  [id |-> id, type |-> type, label |-> type, numInputs |-> num_inputs, numOutputs |-> 1]

ActionNode(id, label) ==
  [id |-> id, type |-> "Action", label |-> label, numInputs |-> 1, numOutputs |-> 0]

SourceNode(id) ==
  [id |-> id, type |-> "Source", label |-> "Source", numInputs |-> 0, numOutputs |-> 1]

Conn(id, source, source_key, target, target_key) ==
  [id |-> id, sourceNodeId |-> source, sourceOutputKey |-> source_key,
   targetNodeId |-> target, targetInputKey |-> target_key]

CsvRow(weight, color, is_cracked) ==
  (ColWeight :> weight) @@ (ColColor :> color) @@ (ColCracked :> is_cracked)

RowPool ==
  {CsvRow(<<"0",".","9">>, <<"b","l","u","e">>, <<"t","r","u","e">>),
   CsvRow(<<"0",".","5","0">>, <<"#","1">>, <<"f","a","l","s","e">>),
   CsvRow(<<"i","n","f">>, <<>>, <<"T","R","U","E">>),
   CsvRow(<<"n","/","a">>, <<"r","e","d">>, <<"0">>)}

SeqsUpTo(S, n) == UNION {[1..m -> S] : m \in 0..n}

\* Graphs: the nodes A (a Rule), B (an OR gate) and C (the DISCARD action) in
\* any order and number, with every list of connections between the three
\* ids up to a length (a connection to an id that is not loaded is dropped).
GraphNodePool ==
  {RuleNode("A", CodeWeight, TypeFloat), GateNode("B", "OR", 2), ActionNode("C", "DISCARD")}

GraphNodeLists ==
  {l \in SeqsUpTo(GraphNodePool, Cardinality(GraphNodePool)) :
     \A m, n \in 1..Len(l) : m # n => l[m] # l[n]}

GraphConnChoices == [s : {"A", "B", "C"}, t : {"A", "B", "C"}]

GraphConnLists(max) ==
  {[n \in 1..Len(l) |->
      Conn("c" \o ToString(n), l[n].s, IF l[n].s = "A" THEN "output0" ELSE "output",
           l[n].t, "input0")] : l \in SeqsUpTo(GraphConnChoices, max)}

GraphWorkflows(max) ==
  {[nodes |-> ns, connections |-> cs] : ns \in GraphNodeLists, cs \in GraphConnLists(max)}

GraphData ==
  <<CsvRow(<<"0",".","9">>, <<"b","l","u","e">>, <<"t","r","u","e">>), CsvRow(<<"0",".","5","0">>, <<"#","1">>, <<"f","a","l","s","e">>)>>

\* Rules: Rule -> DISCARD with every code line and declared type.
CodeLines ==
  {CodeWeight, CodeColorBlue, CodeColorHash, CodeCracked, CodeLimit, CodeIncomplete,
   CodeMixed, CodeBoth, CodeAbs}

VariableTypes == {TypeFloat, TypeInt, TypeStr, TypeBool, TypeString}

RuleWorkflows ==
  {[nodes |-> <<RuleNode("R", c, vt), ActionNode("D", "DISCARD")>>,
    connections |-> <<Conn("c1", "R", "output0", "D", "input0")>>] :
     c \in CodeLines, vt \in VariableTypes}

\* Further workflows: no nodes, a Source, an AND gate, an unknown action
\* label, the two-rule OR of the specification, a Rule and an Action in a
\* cycle; each also with a default decision string.
PlainWorkflows ==
  {<<>>,
   [connections |-> <<>>],
   [nodes |-> <<SourceNode("S"), ActionNode("D", "DISCARD")>>,
    connections |-> <<Conn("c1", "S", "output0", "D", "input0")>>],
   [nodes |-> <<SourceNode("S"), RuleNode("R", CodeWeight, TypeFloat),
                GateNode("G", "AND", 2), ActionNode("D", "DISCARD")>>,
    connections |-> <<Conn("c1", "S", "output0", "G", "input0"),
                      Conn("c2", "R", "output0", "G", "input1"),
                      Conn("c3", "G", "output", "D", "input0")>>],
   [nodes |-> <<RuleNode("R", CodeCracked, TypeBool), ActionNode("H", "HALT")>>,
    connections |-> <<Conn("c1", "R", "output0", "H", "input0")>>],
   [nodes |-> <<RuleNode("RA", CodeColorBlue, TypeString),
                RuleNode("RB", CodeCracked, TypeBool),
                GateNode("G", "OR", 2), ActionNode("D", "DISCARD")>>,
    connections |-> <<Conn("c1", "RA", "output0", "G", "input0"),
                      Conn("c2", "RB", "output0", "G", "input1"),
                      Conn("c3", "G", "output", "D", "input0")>>],
   [nodes |-> <<ActionNode("D", "DISCARD"), RuleNode("R", CodeWeight, TypeFloat)>>,
    connections |-> <<Conn("c1", "R", "output0", "D", "input0"),
                      Conn("c2", "D", "output", "R", "input0")>>]}

\* Gates: two Rules A (weight > 0.8) and L (weight > 0.4) feed a gate G of
\* either type with every declared numInputs, through every list of
\* connections to its slots; G feeds the DISCARD action.
GateConnChoices == [s : {"A", "L"}, n : 0..MaxGateInputs]

GateConnLists ==
  {[m \in 1..Len(l) |->
      Conn("g" \o ToString(m), l[m].s, "output0", "G", InputKey(l[m].n))] :
     l \in SeqsUpTo(GateConnChoices, MaxGateConns)}

GateWorkflows ==
  {[nodes |-> <<RuleNode("A", CodeWeight, TypeFloat), RuleNode("L", CodeLow, TypeFloat),
                GateNode("G", type, num_inputs), ActionNode("D", "DISCARD")>>,
    connections |-> cs \o <<Conn("c", "G", "output", "D", "input0")>>] :
     type \in {"AND", "OR"}, num_inputs \in 0..MaxGateInputs, cs \in GateConnLists}

GateData ==
  <<CsvRow(<<"0",".","9">>, <<"b","l","u","e">>, <<"t","r","u","e">>), CsvRow(<<"0",".","5","0">>, <<"#","1">>, <<"f","a","l","s","e">>), CsvRow(<<"n","/","a">>, <<"r","e","d">>, <<"0">>)>>

\* Fan-out: a Rule declaring any number of outputs, one of its slots
\* connected to the DISCARD action.
FanWorkflows ==
  {[nodes |-> <<RuleNodeOut("R", CodeWeight, TypeFloat, num_outputs),
                ActionNode("D", "DISCARD")>>,
    connections |-> <<Conn("c1", "R", OutputKey(slot), "D", "input0")>>] :
     num_outputs \in 0..MaxOutputs, slot \in 0..MaxOutputs}

\* Derived rules: the Rules P and Q carry the same condition; P is fed by
\* the Rule A and Q by the Rule L, and one of them feeds the DISCARD action.
DerivedWorkflows ==
  {[nodes |-> <<RuleNode("A", CodeWeight, TypeFloat), RuleNode("L", CodeLow, TypeFloat),
                RuleNode("P", code_line, TypeFloat), RuleNode("Q", code_line, TypeFloat),
                ActionNode("D", "DISCARD")>>,
    connections |-> <<Conn("c1", "A", "output0", "P", "input0"),
                      Conn("c2", "L", "output0", "Q", "input0"),
                      Conn("c3", last, "output0", "D", "input0")>>] :
     code_line \in {CodeWeight, CodeLow}, last \in {"P", "Q"}}

DefaultDecisions == {"REVIEW"}

MiscWorkflows ==
  PlainWorkflows
  \cup {[defaultDecision |-> d] @@ w : w \in PlainWorkflows \ {<<>>}, d \in DefaultDecisions}

\* the identifier lists of the Rule conditions of a description
IdentifierLists(workflow) ==
  LET node_list == Get(workflow, "nodes", <<>>)
  IN {FindIdentifiers(Strip(Get(node_list[n], "codeLine", DefaultCodeLine)), 1) :
        n \in {m \in DOMAIN node_list : Get(node_list[m], "type", "") = "Rule"}}

\* the identifiers of a set of identifier lists
Identifiers(lists) == UNION {Members(names) : names \in lists}

\* the identifiers that share a condition with another identifier
Accompanied(lists) == UNION {Members(names) : names \in {l \in lists : Len(l) > 1}}

\* set(names) of each condition: its distinct identifiers, in the order in
\* which they go into the set
InsertionLists(lists) == {KeyOrder(names, {}) : names \in lists}

\* the identifiers of the conditions of more than four identifiers, whose
\* sets are resized
Resized(lists) == UNION {Members(names) : names \in {l \in lists : Len(l) > 4}}

\* the hashes of d digits in base 32, each digit below the given number
RECURSIVE HashesOf(_, _)
HashesOf(d, below) ==
  IF d = 0 THEN {<<>>}
  ELSE {<<digit>> \o hash : digit \in 0..(below - 1), hash \in HashesOf(d - 1, below)}

\* the entries of a table of the given size that the probing loop goes to
\* while it reads the digits of a hash
RECURSIVE ProbeWalk(_, _, _)
ProbeWalk(start, perturb, size) ==
  IF Len(perturb) <= 1 THEN <<start>>
  ELSE <<start>> \o ProbeWalk(NextEntry(start, perturb, size), Shift(perturb), size)

ProbeEntries(hash, size) == ProbeWalk(LowBits(hash, size), hash, size)

\* the number of times a key goes into an entry, over the sets of two keys
\* and more
RECURSIVE Landings(_)
Landings(lists) ==
  IF lists = {} THEN 0
  ELSE LET names == CHOOSE l \in lists : TRUE
       IN (IF Len(names) > 1 THEN Len(names) ELSE 0) + Landings(lists \ {names})

\* The number of entries that the draws make use of. The probing loop looks
\* at entries in use, into which a key went, and at the entry the key goes
\* into; an iteration order is the order of these entries, and hashes that
\* lead to the same entries in the same order lead to the same iteration
\* orders. The entries into which some key goes in some set are as many as
\* the keys of the sets at most, and 8 at most: the draws lead to the first
\* so many entries (to all 8 beside the hashes of a resized set, which lead
\* to every entry).
EntriesUsed(lists) ==
  IF Resized(lists) # {} \/ Landings(lists) > 8 THEN 8 ELSE Landings(lists)

\* The hashes drawn at first. A set of up to four keys keeps its table of
\* 8 entries, where the three low bits of a digit of the hash are all that
\* is read, and the first entry of a key is its first digit. The hash of an
\* identifier that stands alone in every condition changes no iteration
\* order: one hash. An identifier of a resized set takes every hash of 64
\* bits (13 digits).
HashPool(name, lists) ==
  IF name \in Resized(lists) THEN HashesOf(13, 32)
  ELSE IF name \in Accompanied(lists) THEN HashesOf(1, EntriesUsed(lists))
  ELSE {<<3>>}

\* every first draw of hashes for the given identifiers
RECURSIVE SeedsOver(_, _)
SeedsOver(names, lists) ==
  IF names = {} THEN {<<>>}
  ELSE LET name == CHOOSE x \in names : TRUE
       IN {(name :> hash) @@ seed :
             hash \in HashPool(name, lists), seed \in SeedsOver(names \ {name}, lists)}

\* the identifiers of the list from "names" on for which the probing loop
\* shifts perturb beyond the digits drawn, while the set is built
RECURSIVE ShortFrom(_, _, _)
ShortFrom(names, table, seed) ==
  IF names = <<>> THEN {}
  ELSE (IF LookKey(table, Head(names), seed[Head(names)]).shifts
             >= Len(seed[Head(names)])
        THEN {Head(names)} ELSE {})
       \cup ShortFrom(Tail(names), set_add_entry(table, Head(names), seed), seed)

\* the identifiers whose hash needs a further digit in some condition
Short(lists, seed) ==
  UNION {ShortFrom(names, EmptyTable(8), seed) : names \in {l \in lists : Len(l) <= 4}}

\* The draws with one more digit for an identifier. A key never goes into
\* an entry that it has looked at before (the entry was in use), so that the
\* digits that lead back to one give nothing new: they are left out.
NewEntry(entries, used) ==
  /\ entries[Len(entries)] < used
  /\ \A n \in 1..(Len(entries) - 1) : entries[n] # entries[Len(entries)]

Longer(seed, name, used) ==
  {[seed EXCEPT ![name] = @ \o <<digit>>] :
     digit \in {d \in 0..7 : NewEntry(ProbeEntries(seed[name] \o <<d>>, 8), used)}}

\* the draws with as many digits as the sets of the conditions read: the
\* draws that are short of a digit (each paired with the identifiers that
\* are) get one more digit for one of these identifiers, until none is
\* short
RECURSIVE Settled(_, _, _)
Settled(lists, drawn, short) ==
  IF short = {} THEN drawn
  ELSE Settled(lists,
               drawn \cup {p[1] : p \in {q \in short : q[2] = {}}},
               {<<seed, Short(lists, seed)>> :
                  seed \in UNION {Longer(p[1], CHOOSE name \in p[2] : TRUE,
                                         EntriesUsed(lists)) :
                                    p \in {q \in short : q[2] # {}}}})

\* the iteration order that each condition's set takes in a process
JointOrder(lists, seed) ==
  [names \in lists |-> IterationOrder(SetOf(names, EmptyTable(8), seed))]

\* one draw for each combination of iteration orders
OneOfEach(ordered) ==
  {(CHOOSE p \in ordered : p[1] = order)[2] : order \in {p[1] : p \in ordered}}

HashSeedsOf(lists) ==
  OneOfEach({<<JointOrder(lists, seed), seed>> :
               seed \in Settled(lists, {},
                                 {<<first, Short(lists, first)>> :
                                    first \in SeedsOver(Identifiers(lists), lists)})})

\* The hashes a process can hold for the identifiers of a description: the
\* processes that give the sets of all conditions the same iteration orders
\* run alike, and one of them stands for all.
HashSeeds(workflow) == HashSeedsOf(InsertionLists(IdentifierLists(workflow)))

\* the header line of the generated CSV files
CsvHeader == <<ColWeight, ColColor, ColCracked>>

\* a header line with blanks around a name, and lines that end after
\* their second cell
PaddedHeader == <<ColWeightPadded, ColColor, ColCracked>>

PaddedRow(weight, color) == (ColWeightPadded :> weight) @@ (ColColor :> color)

PaddedData == <<PaddedRow(<<"0",".","9">>, <<"b","l","u","e">>), PaddedRow(<<" ","0",".","5"," ">>, <<>>)>>

PaddedWorkflows ==
  {[nodes |-> <<RuleNode("R", c, TypeFloat), ActionNode("D", "DISCARD")>>,
    connections |-> <<Conn("c1", "R", "output0", "D", "input0")>>] :
     c \in {CodeWeight, CodeCracked}}

\* a condition of three identifiers, on a row whose weight is inf
TripleWorkflows ==
  {[nodes |-> <<RuleNode("R", CodeTriple, TypeInt), ActionNode("D", "DISCARD")>>,
    connections |-> <<Conn("c1", "R", "output0", "D", "input0")>>]}

TripleData == <<CsvRow(<<"i","n","f">>, <<>>, <<"T","R","U","E">>)>>

\* the state before the run: the arguments, the file and the hashes of the
\* process
Before(workflow, seed, fieldnames, csv) ==
  /\ workflow_data = workflow
  /\ csv_fieldnames = fieldnames
  /\ csv_rows = csv
  /\ hash_seed = seed
  /\ nodes = <<>>
  /\ connections_from_source = <<>>
  /\ connections_to_target = <<>>
  /\ node_order = <<>>
  /\ all_input_data = <<>>
  /\ pc = "start"
  /\ i = 0
  /\ k = 0
  /\ evaluated_outputs = <<>>
  /\ entered_node = ""
  /\ gathered_inputs = <<>>
  /\ decision = ""
  /\ action_calls = <<>>
  /\ processed_data_with_output = <<>>
  /\ error_count = 0
  /\ accepted_count = 0
  /\ discarded_count = 0
  /\ result = Unset
  /\ outfile = Unset

\* a file without a header line has no lines
Init ==
  \/ \E w \in GraphWorkflows(MaxConns) :
       \E seed \in HashSeeds(w) : Before(w, seed, CsvHeader, GraphData)
  \/ \E w \in RuleWorkflows \cup MiscWorkflows :
       \E seed \in HashSeeds(w) :
         \E csv \in SeqsUpTo(RowPool, MaxRows) : Before(w, seed, CsvHeader, csv)
  \/ \E w \in GateWorkflows \cup FanWorkflows \cup DerivedWorkflows :
       \E seed \in HashSeeds(w) : Before(w, seed, CsvHeader, GateData)
  \/ \E w \in PaddedWorkflows :
       \E seed \in HashSeeds(w) : Before(w, seed, PaddedHeader, PaddedData)
  \/ \E w \in PaddedWorkflows :
       \E seed \in HashSeeds(w) : Before(w, seed, <<>>, <<>>)
  \/ \E w \in TripleWorkflows :
       \E seed \in HashSeeds(w) : Before(w, seed, CsvHeader, TripleData)

Spec == Init /\ [][Next]_vars

\* Loading and ordering alone, on more graphs.
InitOrder ==
  \E w \in GraphWorkflows(MaxOrderConns) :
    \E seed \in HashSeeds(w) : Before(w, seed, CsvHeader, GraphData)

SpecOrder == InitOrder /\ [][Construct]_vars

----------------------------------------------------------------------------
(* Properties of the engine.                                                *)

\* the pairs <<source, target>> of the loaded connections
Edges(from_source) ==
  {<<c.source_id, c.target_id>> :
     c \in UNION {{from_source[id][n] : n \in 1..Len(from_source[id])} :
                    id \in DOMAIN from_source}}

RECURSIVE TransitiveClosure(_)
TransitiveClosure(R) ==
  LET step == R \cup {<<p[1], q[2]>> : <<p, q>> \in {pq \in R \X R : pq[1][2] = pq[2][1]}}
  IN IF step = R THEN R ELSE TransitiveClosure(step)

\* some node reaches itself along loaded connections
HasCycle(from_source) ==
  \E e \in TransitiveClosure(Edges(from_source)) : e[1] = e[2]

Position(order, id) == CHOOSE n \in 1..Len(order) : order[n] = id

IsTopological(order, from_source) ==
  \A e \in Edges(from_source) : Position(order, e[1]) < Position(order, e[2])

\* the nodes of the current row that the loop of process_event has passed
Passed == 1..(k - 1)

\* the number of recorded rows with the decision d
Tally(d) ==
  Cardinality({n \in 1..Len(processed_data_with_output) :
                 processed_data_with_output[n][WorkflowDecisionKey].v = d})

\* C1: when the loaded graph has a cycle, constructing the engine fails and
\* the run ends with an error result: no row is processed, no decision and
\* no statistics are reported.
C1_CycleFailsRun ==
  HasCycle(connections_from_source) =>
    /\ pc \notin {"rows", "event", "tally"}
    /\ processed_data_with_output = <<>>
    /\ pc = "done" => result.error.t # "none" /\ result.stats.t = "none"

\* C2: for every acyclic loaded graph, multi-connections and disconnected
\* components included, the order the engine computes (backend engine and
\* stand-alone engine alike) places the source of every loaded connection
\* strictly before its target.
C2_TopologicalOrder ==
  (pc # "start" /\ ~HasCycle(connections_from_source)) =>
    /\ IsTopological(node_order, connections_from_source)
    /\ IsTopological(_get_topological_order_standalone(
                       nodes, connections_from_source, connections_to_target),
                     connections_from_source)

\* an acyclic graph with two connections between the same pair, a node
\* without connections, and an order that is not the order of the node list
C2_Witness ==
  /\ pc = "constructed"
  /\ ~HasCycle(connections_from_source)
  /\ \E id \in DOMAIN connections_from_source :
       \E m, n \in 1..Len(connections_from_source[id]) :
         /\ m < n
         /\ connections_from_source[id][m].target_id
              = connections_from_source[id][n].target_id
  /\ \E id \in NodeIds(nodes) :
       /\ Len(connections_from_source[id]) = 0
       /\ Len(connections_to_target[id]) = 0
  /\ node_order # NodeKeys(nodes)

\* C3: once an Action labelled DISCARD is reached with a true input0, the
\* evaluation of the row is over: the decision is DISCARD, the action was
\* called once, no node later in the order has been evaluated, and the
\* recorded decision of the row is DISCARD.
C3_DiscardEndsRow ==
  /\ (pc \in {"event", "tally"} /\ action_calls # <<>>) =>
       /\ pc = "tally"
       /\ decision = "DISCARD"
       /\ action_calls = <<node_order[k]>>
       /\ \A j \in (k + 1)..Len(node_order) :
            DOMAIN evaluated_outputs[node_order[j]] = {}
  /\ (pc = "rows" /\ action_calls # <<>>) =>
       processed_data_with_output[Len(processed_data_with_output)]
         [WorkflowDecisionKey].v = "DISCARD"

\* the row ended at a DISCARD action that has a Rule or a gate after it
C3_Witness ==
  /\ pc = "tally"
  /\ decision = "DISCARD"
  /\ action_calls # <<>>
  /\ \E j \in (k + 1)..Len(node_order) :
       NodeOf(nodes, node_order[j]).type \in {"Rule", "AND", "OR"}

\* C4: a row on which no Action fires gets the default decision configured
\* in the workflow description: the default-decision string the workflow
\* supplies, and ACCEPT when it supplies none.
C4_ConfiguredDefault ==
  (pc = "tally" /\ action_calls = <<>>) =>
    decision = Get(workflow_data, "defaultDecision", "ACCEPT")

\* C5: a run over a loaded graph and a dataset with rows ends with one output
\* row for every input row, in input order and with the fields of the input
\* row, whatever faults the nodes or the rows hold, and total_processed is
\* the number of input rows.
C5_OneOutputRowPerInputRow ==
  (pc \in {"done", "raised"} /\ EngineLoaded(nodes) /\ csv_rows # <<>>) =>
    /\ Len(processed_data_with_output) = Len(csv_rows)
    /\ \A n \in 1..Len(csv_rows) :
         \A header \in DOMAIN csv_rows[n] :
           processed_data_with_output[n][Strip(header)] = LoadCell(csv_rows[n][header])
    /\ pc = "done"
    /\ result.stats.t = "stats"
    /\ result.stats.total_processed = Len(csv_rows)

\* C6: a workflow description whose node list is absent or empty makes the
\* run fail to load: the result is an error without statistics and without
\* an output file, no row is read and no row gets a decision.
C6_NoNodesFailsToLoad ==
  (pc # "start" /\ Get(workflow_data, "nodes", <<>>) = <<>>) =>
    /\ pc \in {"constructed", "done"}
    /\ all_input_data = <<>>
    /\ processed_data_with_output = <<>>
    /\ decision = ""
    /\ pc = "done" =>
         /\ result.error.t # "none"
         /\ result.stats.t = "none"
         /\ result.output_file.t = "none"

\* the run ended on a description with an empty node list and a dataset
C6_Witness ==
  /\ pc = "done"
  /\ "nodes" \in DOMAIN workflow_data
  /\ workflow_data.nodes = <<>>
  /\ csv_rows # <<>>

\* C7: the outcome of a run is a function of the graph and the dataset: the
\* step a Rule takes on a row is the same in every run (whatever order the
\* process gives the identifier set), rows with equal data get equal
\* decisions whatever rows came before, and the counters are the tallies of
\* the recorded decisions.
C7_Deterministic ==
  /\ (pc = "event" /\ k <= Len(node_order) /\ CurrentNode.data.type = "Rule") =>
       \A seed \in HashSeeds(workflow_data) :
         /\ RuleRaises(CurrentNode.data, CurrentRow, seed)
              = RuleRaises(CurrentNode.data, CurrentRow, hash_seed)
         /\ ~RuleRaises(CurrentNode.data, CurrentRow, seed) =>
              RuleResult(CurrentNode.data, CurrentRow, seed)
                = RuleResult(CurrentNode.data, CurrentRow, hash_seed)
  /\ \A m, n \in 1..Len(processed_data_with_output) :
       csv_rows[m] = csv_rows[n] =>
         processed_data_with_output[m][WorkflowDecisionKey]
           = processed_data_with_output[n][WorkflowDecisionKey]
  /\ accepted_count = Tally("ACCEPT")
  /\ discarded_count = Tally("DISCARD")
  /\ error_count = Tally("ERROR_WORKFLOW_ORDER")

\* C8: no fault of a Rule (coercion of a column value, evaluation of the
\* expression) leaves the Rule: no exception reaches the caller of the run.
C8_RuleFaultsCaught == pc # "raised"

\* C9: a Source node that the row has passed holds true in each of its
\* declared output slots.
C9_SourceEmitsTrue ==
  pc \in {"event", "tally"} =>
    \A j \in Passed :
      LET node == NodeOf(nodes, node_order[j])
      IN node.type = "Source" =>
           \A n \in 0..(node.num_outputs - 1) :
             Get(evaluated_outputs[node.id], OutputKey(n), FALSE)

\* the string literal each comparison of a column with a quoted literal names
QuotedLiteral ==
  (CodeColorBlue :> <<"b","l","u","e">>) @@ (CodeColorHash :> <<"#","1">>)

\* C10: a Rule that compares the column color with a quoted string literal,
\* declared with a string type, is evaluable: its output is true exactly
\* when the coerced column value equals the literal.
C10_QuotedLiteralRule ==
  pc \in {"event", "tally"} =>
    \A j \in Passed :
      LET node == NodeOf(nodes, node_order[j]).data
      IN (/\ node.type = "Rule"
          /\ node.codeLine \in DOMAIN QuotedLiteral
          /\ Lower(node.variableType) \in {TypeStr, TypeString}) =>
           LET value == _cast_value(CurrentRow[ColColor], Lower(node.variableType))
           IN evaluated_outputs[node.id]["output0"]
                = (value.t = "str" /\ value.v = QuotedLiteral[node.codeLine])

\* C11: a Rule whose condition combines comparisons of the column weight with
\* a boolean operator, or applies a whitelisted function to it, declared
\* float on a row whose weight is a number, is evaluated: its output is the
\* boolean value of the expression with weight bound to the coerced value.
C11_BooleanOperatorsReachable ==
  pc \in {"event", "tally"} =>
    \A j \in Passed :
      LET node == NodeOf(nodes, node_order[j]).data
          value == _cast_value(CurrentRow[ColWeight], TypeFloat)
      IN (/\ node.type = "Rule"
          /\ node.codeLine \in {CodeBoth, CodeAbs}
          /\ Lower(node.variableType) = TypeFloat
          /\ value.t = "float") =>
           evaluated_outputs[node.id]["output0"]
             = Truthy(PyEval(node.codeLine, (ColWeight :> value)))

\* the condition names a column whose non-null value the declared type
\* cannot take, or an identifier that is no column, no boolean word and no
\* number
Unevaluable(node_specific_data, row_data) ==
  LET rule_variable_type ==
        Lower(Get(node_specific_data, "variableType", DefaultVariableType))
      code_line == Strip(Get(node_specific_data, "codeLine", DefaultCodeLine))
  IN \E var_name \in Members(FindIdentifiers(code_line, 1)) :
       IF var_name \in DOMAIN row_data
       THEN /\ row_data[var_name].t # "none"
            /\ _cast_value(row_data[var_name], rule_variable_type).t \in {"none", "raise"}
       ELSE /\ Lower(var_name) \notin {StrTrue, StrFalse}
            /\ IsRaise(FloatOfStr(var_name))

\* C12: a Rule whose condition is unevaluable on the row (a column value the
\* declared type cannot take, an identifier that is neither a column nor a
\* literal) writes false to its outputs and the row goes on to a decision:
\* no exception ends the run.
C12_UnevaluableRuleIsFalse ==
  /\ pc = "raised" => ~Unevaluable(CurrentNode.data, CurrentRow)
  /\ pc \in {"event", "tally"} =>
       \A j \in Passed :
         LET node == NodeOf(nodes, node_order[j])
         IN (node.type = "Rule" /\ Unevaluable(node.data, CurrentRow)) =>
              \A key \in DOMAIN evaluated_outputs[node.id] :
                ~evaluated_outputs[node.id][key]

\* the node of the given type has just been evaluated for the current row
JustEvaluated(type) ==
  /\ pc = "event"
  /\ entered_node # ""
  /\ NodeOf(nodes, entered_node).type = type

\* the signal a connection carries to the node id in the current pass: the
\* slot its source wrote earlier in the pass, false when there is none
Delivered(conn, id) ==
  /\ Position(node_order, conn.source_id) < Position(node_order, id)
  /\ Get(evaluated_outputs[conn.source_id], conn.source_output_key, FALSE)

\* the connections into the slot key of the node id
Into(id, key) ==
  SelectSeq(connections_to_target[id], LAMBDA conn : conn.target_input_key = key)

\* the value on the slot: that of the last connection into it, false
\* without a connection
SlotValue(id, key) ==
  /\ Into(id, key) # <<>>
  /\ Delivered(Into(id, key)[Len(Into(id, key))], id)

DeclaredSlots(node) == {InputKey(n) : n \in 0..(node.num_inputs - 1)}

ConnectedSlots(id) ==
  {connections_to_target[id][n].target_input_key :
     n \in 1..Len(connections_to_target[id])}

\* C13: an AND gate declaring zero inputs outputs true and an OR gate
\* declaring zero inputs outputs false, whatever is connected to them; a
\* declared slot without a connection counts as false, so an AND gate with
\* such a slot outputs false and an OR gate outputs the disjunction of its
\* connected declared slots. The gates of the stand-alone engine give the
\* same outputs.
C13_ZeroAndMissingInputs ==
  /\ JustEvaluated("AND") =>
       LET node == NodeOf(nodes, entered_node)
           output == evaluated_outputs[entered_node]["output"]
       IN /\ node.num_inputs = 0 => output
          /\ DeclaredSlots(node) \ ConnectedSlots(node.id) # {} => ~output
          /\ output = AndResultStandalone(node, gathered_inputs)
  /\ JustEvaluated("OR") =>
       LET node == NodeOf(nodes, entered_node)
           output == evaluated_outputs[entered_node]["output"]
       IN /\ node.num_inputs = 0 => ~output
          /\ output = \E key \in DeclaredSlots(node) \cap ConnectedSlots(node.id) :
                        SlotValue(node.id, key)
          /\ output = OrResultStandalone(node, gathered_inputs)

\* an AND gate declaring zero inputs, fed a false signal, has output true
C13_Witness ==
  /\ JustEvaluated("AND")
  /\ NodeOf(nodes, entered_node).num_inputs = 0
  /\ \E n \in 1..Len(connections_to_target[entered_node]) :
       ~Delivered(connections_to_target[entered_node][n], entered_node)
  /\ evaluated_outputs[entered_node]["output"]

\* C14: loading keeps every node described and drops exactly the connection
\* descriptors with an endpoint outside the node set; every entry of
\* connections_from_source[s] has the source s and a loaded target, every
\* entry of connections_to_target[t] has the target t and a loaded source,
\* and the two indexes hold the same connections, those that were kept.
C14_AdjacencyIndexes ==
  pc # "start" =>
    LET ids == {Get(workflow_data, "nodes", <<>>)[n].id :
                  n \in 1..Len(Get(workflow_data, "nodes", <<>>))}
        described == Get(workflow_data, "connections", <<>>)
        kept == {ConnInfo(described[n]) :
                   n \in {m \in 1..Len(described) :
                            /\ described[m].sourceNodeId \in ids
                            /\ described[m].targetNodeId \in ids}}
        from == UNION {{connections_from_source[id][n] :
                          n \in 1..Len(connections_from_source[id])} :
                         id \in DOMAIN connections_from_source}
        to == UNION {{connections_to_target[id][n] :
                        n \in 1..Len(connections_to_target[id])} :
                       id \in DOMAIN connections_to_target}
    IN /\ NodeIds(nodes) = ids
       /\ \A id \in DOMAIN connections_from_source :
            \A n \in 1..Len(connections_from_source[id]) :
              /\ connections_from_source[id][n].source_id = id
              /\ connections_from_source[id][n].target_id \in ids
       /\ \A id \in DOMAIN connections_to_target :
            \A n \in 1..Len(connections_to_target[id]) :
              /\ connections_to_target[id][n].target_id = id
              /\ connections_to_target[id][n].source_id \in ids
       /\ from = kept
       /\ to = kept

\* a loaded graph that kept one connection and dropped another
C14_Witness ==
  /\ pc = "constructed"
  /\ nodes # <<>>
  /\ \E id \in DOMAIN connections_from_source : connections_from_source[id] # <<>>
  /\ \E n \in 1..Len(workflow_data.connections) :
       workflow_data.connections[n].targetNodeId \notin NodeIds(nodes)

\* C15: when a node is entered in a row's pass, the source of every
\* connection into it has been evaluated earlier in the same pass.
C15_SourcesEvaluatedFirst ==
  (pc \in {"event", "tally", "raised"} /\ entered_node # "") =>
    \A n \in 1..Len(connections_to_target[entered_node]) :
      Position(node_order, connections_to_target[entered_node][n].source_id)
        < Position(node_order, entered_node)

\* C16 as stated: an AND gate (of an acyclic graph) with at least one
\* incoming connection outputs true exactly when every incoming connection
\* delivers true, whatever numInputs it declares.
C16_AndOverPresentSlots ==
  (/\ JustEvaluated("AND")
   /\ connections_to_target[entered_node] # <<>>
   /\ ~HasCycle(connections_from_source)) =>
    evaluated_outputs[entered_node]["output"]
      = \A n \in 1..Len(connections_to_target[entered_node]) :
          Delivered(connections_to_target[entered_node][n], entered_node)

\* C16: an AND gate outputs the conjunction of its declared slots input0 to
\* input(numInputs-1), each holding the value of the last connection into it
\* and false without a connection; connections into other slots are ignored.
C16_AndOverDeclaredSlots ==
  JustEvaluated("AND") =>
    evaluated_outputs[entered_node]["output"]
      = \A key \in DeclaredSlots(NodeOf(nodes, entered_node)) :
          SlotValue(entered_node, key)

\* an AND gate declaring one input outputs true with true on input0 while a
\* connection into input1 delivers false
C16_Witness ==
  /\ JustEvaluated("AND")
  /\ NodeOf(nodes, entered_node).num_inputs = 1
  /\ SlotValue(entered_node, "input0")
  /\ Into(entered_node, "input1") # <<>>
  /\ ~SlotValue(entered_node, "input1")
  /\ evaluated_outputs[entered_node]["output"]

\* C17 as stated: an OR gate (of an acyclic graph) outputs true exactly when
\* at least one incoming connection delivers true, whatever numInputs it
\* declares.
C17_OrOverPresentSlots ==
  (JustEvaluated("OR") /\ ~HasCycle(connections_from_source)) =>
    evaluated_outputs[entered_node]["output"]
      = \E n \in 1..Len(connections_to_target[entered_node]) :
          Delivered(connections_to_target[entered_node][n], entered_node)

\* C17: an OR gate outputs the disjunction of its declared slots input0 to
\* input(numInputs-1), each holding the value of the last connection into it
\* and false without a connection; connections into other slots are ignored.
C17_OrOverDeclaredSlots ==
  JustEvaluated("OR") =>
    evaluated_outputs[entered_node]["output"]
      = \E key \in DeclaredSlots(NodeOf(nodes, entered_node)) :
          SlotValue(entered_node, key)

\* an OR gate declaring two inputs outputs false while a connection into
\* input2 delivers true
C17_Witness ==
  /\ JustEvaluated("OR")
  /\ NodeOf(nodes, entered_node).num_inputs = 2
  /\ SlotValue(entered_node, "input2")
  /\ ~evaluated_outputs[entered_node]["output"]

\* the source of the connection has not written the slot the connection
\* names when the node id is entered: the source comes later in the pass
\* (or is the node itself), or it never writes a slot of that name
Unwritten(conn, id) ==
  \/ Position(node_order, conn.source_id) >= Position(node_order, id)
  \/ conn.source_output_key \notin DOMAIN evaluated_outputs[conn.source_id]

\* C18: when the last connection into a slot of the entered node names an
\* output slot its source has not written in this pass, the node's input
\* value on that slot is false and the pass goes on; the stand-alone engine
\* gathers the same inputs.
C18_UnwrittenSlotReadsFalse ==
  /\ (pc \in {"event", "tally"} /\ entered_node # "") =>
       \A key \in ConnectedSlots(entered_node) :
         /\ key \in DOMAIN gathered_inputs
         /\ Unwritten(Into(entered_node, key)[Len(Into(entered_node, key))],
                      entered_node) => ~gathered_inputs[key]
  /\ (pc = "event" /\ k <= Len(node_order)) =>
       GatherInputsStandalone(connections_to_target[CurrentId], evaluated_outputs, <<>>)
         = CurrentInputs

\* the entered node has a connection from an earlier node that wrote no
\* output at all, and reads false from it
C18_Witness ==
  /\ pc = "event"
  /\ entered_node # ""
  /\ \E n \in 1..Len(connections_to_target[entered_node]) :
       LET conn == connections_to_target[entered_node][n]
       IN /\ Position(node_order, conn.source_id) < Position(node_order, entered_node)
          /\ DOMAIN evaluated_outputs[conn.source_id] = {}
          /\ ~gathered_inputs[conn.target_input_key]

\* C19: a row is decided DISCARD only at an Action labelled DISCARD that was
\* entered with true on one of its input slots; an Action whose inputs are
\* all false, or whose label is not a known action, calls nothing, leaves
\* the decision alone and lets the pass go on to the next node; no Action
\* raises.
C19_DiscardOnlyWhenTriggered ==
  /\ (pc = "tally" /\ decision = "DISCARD") =>
       /\ NodeOf(nodes, entered_node).type = "Action"
       /\ NodeOf(nodes, entered_node).label = "DISCARD"
       /\ \E key \in DOMAIN gathered_inputs : gathered_inputs[key]
  /\ (/\ pc \in {"event", "tally"}
      /\ entered_node # ""
      /\ NodeOf(nodes, entered_node).type = "Action"
      /\ \/ \A key \in DOMAIN gathered_inputs : ~gathered_inputs[key]
         \/ NodeOf(nodes, entered_node).label \notin ACTION_IMPLEMENTATIONS) =>
       /\ action_calls = <<>>
       /\ decision # "DISCARD"
       /\ k = Position(node_order, entered_node) + 1
  /\ (pc = "raised") => NodeOf(nodes, entered_node).type # "Action"

\* an Action with an unknown label was entered with a true input and the
\* pass went on
C19_Witness ==
  /\ pc = "event"
  /\ entered_node # ""
  /\ NodeOf(nodes, entered_node).type = "Action"
  /\ NodeOf(nodes, entered_node).label \notin ACTION_IMPLEMENTATIONS
  /\ \E key \in DOMAIN gathered_inputs : gathered_inputs[key]
  /\ k = Position(node_order, entered_node) + 1

DeclaredOutputs(node) == {OutputKey(n) : n \in 0..(node.num_outputs - 1)}

\* C20: after a Rule declaring numOutputs = n is evaluated for a row, its
\* output slots are exactly output0..output(n-1) and each holds the Rule's
\* result; a node entered later in the pass whose slot is fed (by the last
\* connection into it) from a declared output slot of the Rule receives
\* that result.
C20_RuleWritesDeclaredSlots ==
  /\ JustEvaluated("Rule") =>
       LET node == NodeOf(nodes, entered_node)
       IN /\ DOMAIN evaluated_outputs[entered_node] = DeclaredOutputs(node)
          /\ \A key \in DeclaredOutputs(node) :
               evaluated_outputs[entered_node][key]
                 = RuleResult(node.data, CurrentRow, hash_seed)
  /\ (pc \in {"event", "tally"} /\ entered_node # "") =>
       \A key \in ConnectedSlots(entered_node) :
         LET conn == Into(entered_node, key)[Len(Into(entered_node, key))]
             source == NodeOf(nodes, conn.source_id)
         IN (/\ source.type = "Rule"
             /\ Position(node_order, source.id) < Position(node_order, entered_node)
             /\ conn.source_output_key \in DeclaredOutputs(source)) =>
              gathered_inputs[key] = RuleResult(source.data, CurrentRow, hash_seed)

\* the DISCARD action fired on the second output slot of a Rule declaring
\* two outputs
C20_Witness ==
  /\ pc = "tally"
  /\ decision = "DISCARD"
  /\ \E n \in 1..Len(connections_to_target[entered_node]) :
       LET conn == connections_to_target[entered_node][n]
       IN /\ conn.source_output_key = "output1"
          /\ NodeOf(nodes, conn.source_id).type = "Rule"
          /\ NodeOf(nodes, conn.source_id).num_outputs = 2
          /\ DOMAIN evaluated_outputs[conn.source_id] = {"output0", "output1"}

\* a Rule with a connection into it
DerivedRule(id) ==
  /\ NodeOf(nodes, id).type = "Rule"
  /\ connections_to_target[id] # <<>>

\* the same Rule but for the id
SameRule(p, q) ==
  /\ Get(NodeOf(nodes, p).data, "codeLine", <<>>) = Get(NodeOf(nodes, q).data, "codeLine", <<>>)
  /\ Get(NodeOf(nodes, p).data, "variableType", <<>>) =
       Get(NodeOf(nodes, q).data, "variableType", <<>>)
  /\ NodeOf(nodes, p).num_outputs = NodeOf(nodes, q).num_outputs

\* the node id has been evaluated in the pass of the current row
EvaluatedInPass(id) ==
  /\ pc \in {"event", "tally"}
  /\ Position(node_order, id) \in Passed

\* C21: a Rule with an incoming connection computes its result from its
\* upstream boolean input and not from the row: of two such Rules with the
\* same condition, evaluated on the same row of an acyclic graph, the one
\* whose upstream signal is true and the one whose upstream signal is false
\* write different results.
C21_DerivedRuleFollowsInput ==
  ~HasCycle(connections_from_source) =>
    \A p, q \in NodeIds(nodes) :
      (/\ DerivedRule(p) /\ DerivedRule(q) /\ SameRule(p, q)
       /\ EvaluatedInPass(p) /\ EvaluatedInPass(q)
       /\ NodeOf(nodes, p).num_outputs > 0
       /\ SlotValue(p, "input0") /\ ~SlotValue(q, "input0"))
      => evaluated_outputs[p]["output0"] # evaluated_outputs[q]["output0"]

\* what a step of the run taken from the first row on leaves alone
RowStepFrame ==
  pc \in {"rows", "event", "tally"} =>
    /\ nodes' = nodes
    /\ connections_from_source' = connections_from_source
    /\ connections_to_target' = connections_to_target
    /\ node_order' = node_order
    /\ all_input_data' = all_input_data
    /\ (pc = "rows" /\ pc' \in {"event", "tally"}) =>
         evaluated_outputs' = [id \in NodeIds(nodes) |-> <<>>]
    /\ pc = "event" =>
         \A id \in NodeIds(nodes) \ {node_order[n] : n \in {k} \cap DOMAIN node_order} :
           evaluated_outputs'[id] = evaluated_outputs[id]
    /\ pc = "tally" => evaluated_outputs' = evaluated_outputs

\* C22: from the first row on, no step of the run (a node evaluated, a
\* DISCARD return, a Rule fault, a row recorded) changes nodes,
\* connections_from_source, connections_to_target, node_order or the loaded
\* input rows; a step that enters process_event starts from an
\* evaluated_outputs map holding an empty entry for every node, and a step
\* inside process_event changes at most the entry of the node it evaluates.
C22_GraphReadOnly == [][RowStepFrame]_vars

\* the second row is entered after a first row that wrote outputs and was
\* decided DISCARD: the graph is the loaded one and the outputs are empty
C22_Witness ==
  /\ pc = "event"
  /\ i = 2
  /\ k = 1
  /\ processed_data_with_output[1][WorkflowDecisionKey].v = "DISCARD"
  /\ nodes = WorkflowEngine(workflow_data).nodes
  /\ connections_to_target = WorkflowEngine(workflow_data).connections_to_target
  /\ connections_to_target # [id \in NodeIds(nodes) |-> <<>>]
  /\ node_order = WorkflowEngine(workflow_data).node_order
  /\ all_input_data = load_csv_data_from_file(csv_fieldnames, csv_rows)
  /\ evaluated_outputs = [id \in NodeIds(nodes) |-> <<>>]

\* the nodes Kahn's pass cannot reach: those on a cycle of loaded
\* connections and those downstream of one
Unreached(from_source) ==
  LET closure == TransitiveClosure(Edges(from_source))
  IN {id \in DOMAIN from_source :
        \E c \in DOMAIN from_source :
          /\ <<c, c>> \in closure
          /\ c = id \/ <<c, id>> \in closure}

\* C23: for every loaded graph, cyclic or not, the order computed at
\* construction holds every loaded node id exactly once; the nodes Kahn's
\* pass does not reach come after all the reached ones, in the order of
\* their insertion, and the reached ones come after their sources; the sort
\* of the stand-alone engine returns the same sequence.
C23_OrderIsPermutation ==
  pc = "constructed" =>
    LET unreached == Unreached(connections_from_source)
        keys == NodeKeys(nodes)
    IN /\ Len(node_order) = Len(nodes)
       /\ {node_order[n] : n \in 1..Len(node_order)} = NodeIds(nodes)
       /\ \A m, n \in 1..Len(node_order) : node_order[m] = node_order[n] => m = n
       /\ \A p \in NodeIds(nodes) \ unreached : \A q \in unreached :
            Position(node_order, p) < Position(node_order, q)
       /\ SelectSeq(node_order, LAMBDA id : id \in unreached)
            = SelectSeq(keys, LAMBDA id : id \in unreached)
       /\ \A e \in Edges(connections_from_source) :
            e[2] \notin unreached =>
              Position(node_order, e[1]) < Position(node_order, e[2])
       /\ node_order =
            _get_topological_order(nodes, connections_from_source, connections_to_target)
       /\ node_order =
            _get_topological_order_standalone(nodes, connections_from_source,
                                              connections_to_target)

\* a cyclic graph of three nodes: one is reached, and the two on the cycle
\* are appended in insertion order, the one inserted first being the target
\* of the other
C23_Witness ==
  /\ pc = "constructed"
  /\ Len(nodes) = 3
  /\ Cardinality(Unreached(connections_from_source)) = 2
  /\ \E m, n \in 1..3 :
       /\ m < n
       /\ node_order[m] \in Unreached(connections_from_source)
       /\ node_order[n] \in Unreached(connections_from_source)
       /\ <<node_order[n], node_order[m]>> \in Edges(connections_from_source)
  /\ node_order[1] \notin Unreached(connections_from_source)
  /\ node_order # NodeKeys(nodes)

\* the decisions recorded so far
RecordedDecisions ==
  {processed_data_with_output[n][WorkflowDecisionKey].v :
     n \in 1..Len(processed_data_with_output)}

\* C24: in a run that processes rows, the decision process_event returns and
\* every recorded decision is ACCEPT or DISCARD; after every recorded row
\* accepted + discarded + errors is the number of rows recorded so far, the
\* two counters are the numbers of rows recorded with each decision, errors
\* stays 0, and the statistics of a finished run report these counts.
C24_DecisionsAndCounts ==
  /\ pc = "tally" => decision \in {"ACCEPT", "DISCARD"}
  /\ RecordedDecisions \subseteq {"ACCEPT", "DISCARD"}
  /\ pc \in {"rows", "event", "tally", "raised"} =>
       /\ accepted_count + discarded_count + error_count
            = Len(processed_data_with_output)
       /\ accepted_count = Tally("ACCEPT")
       /\ discarded_count = Tally("DISCARD")
       /\ error_count = 0
       /\ Len(processed_data_with_output) = i - 1
  /\ (pc = "done" /\ result.stats.t = "stats") =>
       /\ result.stats.errors = 0
       /\ result.stats.accepted = Tally("ACCEPT")
       /\ result.stats.discarded = Tally("DISCARD")
       /\ result.stats.accepted + result.stats.discarded = result.stats.total_processed

\* a finished run of two rows, one accepted and one discarded
C24_Witness ==
  /\ pc = "done"
  /\ result.stats.t = "stats"
  /\ result.stats.total_processed = 2
  /\ result.stats.accepted = 1
  /\ result.stats.discarded = 1
  /\ result.stats.errors = 0
  /\ RecordedDecisions = {"ACCEPT", "DISCARD"}

\* the connections of the workflow description, in its order, that are
\* loaded and lead into the slot key of the node id
DescribedInto(id, key) ==
  SelectSeq(Get(workflow_data, "connections", <<>>),
            LAMBDA c : /\ c.sourceNodeId \in NodeIds(nodes)
                       /\ c.targetNodeId = id
                       /\ c.targetInputKey = key)

\* the signal the described connection c carries to its target in the
\* current pass
Carried(c) ==
  /\ Position(node_order, c.sourceNodeId) < Position(node_order, c.targetNodeId)
  /\ Get(evaluated_outputs[c.sourceNodeId], c.sourceOutputKey, FALSE)

\* the signal of the last described connection into the slot
LastCarried(id, key) ==
  /\ DescribedInto(id, key) # <<>>
  /\ Carried(DescribedInto(id, key)[Len(DescribedInto(id, key))])

\* C25: the value the entered node sees on a connected slot is the one
\* carried by the connection into that slot that comes last in the
\* workflow's list of connections; the output of a gate and the firing of
\* the DISCARD action are decided by these last connections alone,
\* whatever the earlier connections into the same slots carry.
C25_LastConnectionWins ==
  (pc \in {"event", "tally"} /\ entered_node # "") =>
    LET node == NodeOf(nodes, entered_node)
    IN /\ \A key \in ConnectedSlots(entered_node) :
            gathered_inputs[key] = LastCarried(entered_node, key)
       /\ node.type = "AND" =>
            evaluated_outputs[entered_node]["output"]
              = \A key \in DeclaredSlots(node) : LastCarried(entered_node, key)
       /\ node.type = "OR" =>
            evaluated_outputs[entered_node]["output"]
              = \E key \in DeclaredSlots(node) : LastCarried(entered_node, key)
       /\ (node.type = "Action" /\ node.label = "DISCARD") =>
            (decision = "DISCARD") = LastCarried(entered_node, "input0")

\* two connections lead into input0 of an OR gate: the first carries true,
\* the last carries false, and the gate outputs false
C25_Witness ==
  /\ JustEvaluated("OR")
  /\ Len(DescribedInto(entered_node, "input0")) = 2
  /\ Carried(DescribedInto(entered_node, "input0")[1])
  /\ ~Carried(DescribedInto(entered_node, "input0")[2])
  /\ gathered_inputs = [input0 |-> FALSE]
  /\ ~evaluated_outputs[entered_node]["output"]

====
